---- MODULE Spec2Model ----
(***************************************************************************)
(* Trade-approval reinforcement-learning core of the guardian agent:       *)
(* RewardCalculator, StateEncoder, DataLoader.simulate_trade_outcome and   *)
(* TradeApprovalEnv (reset / step).                                        *)
(*                                                                         *)
(* Numbers.  The Python code computes in floating point; the model uses    *)
(* fixed point integers:                                                   *)
(*   pnl, max_drawdown, portfolio_health, market features, encoder        *)
(*   outputs                       : thousandths (1.0 is 1000)             *)
(*   leverage                      : hundredths (1.0 is 100)               *)
(*   rewards and reward components : ten-thousandths (1.0 is 10000)        *)
(*   reward factors (0.3, 0.5)     : tenths                                *)
(*   balance                       : tenths of a dollar                    *)
(*   health_score                  : thousandths of 100 (100.0 is 1000)    *)
(* Products that the code rounds to the nearest float are rounded down to  *)
(* the unit (\div).  Comparisons of quotients are cross-multiplied and so  *)
(* exact.                                                                  *)
(***************************************************************************)
EXTENDS Integers, Sequences, FiniteSets, TLC

VARIABLES
    \* ---- TradeApprovalEnv: constructor arguments ----
    data,               \* self.data: NoData or a DataFrame of market rows
    max_steps,          \* self.max_steps
    hold_periods,       \* self.hold_periods
    \* ---- TradeApprovalEnv: episode state ----
    current_step,       \* self.current_step
    current_idx,        \* self.current_idx
    balance,            \* self.balance
    portfolio_state,    \* self.portfolio_state
    episode_trades,     \* self.episode_trades / self.episode_rewards (aggregated)
    action_counts,      \* self._action_counts
    trade_outcomes,     \* self._trade_outcomes
    portfolio_tracking, \* self._portfolio_tracking
    reward_breakdown,   \* self._reward_breakdown
    \* ---- what the last call on the environment returned / did ----
    ret,                \* op, reward, terminated, truncated, raised, rows_read
    hist,               \* since the last reset: started, episode_over, extra, after_steps
    \* ---- call harnesses of the pure components ----
    rc,                 \* one RewardCalculator call: inputs and results
    se,                 \* one StateEncoder.encode call: inputs and result
    \* ---- TrainingHistoryManager: the run directories under base_dir ----
    clock,              \* datetime.now(), in whole seconds
    fs,                 \* run_id -> config.json, metrics.json, checkpoints/
    hret,               \* what the last call on the manager did and returned
    io,                 \* one write of metrics.json / config.json, step by
                        \* step, and what a reader of the file sees
    cmd,                \* the train_policy command: where handle() is, its
                        \* TrainingCallback, and what earlier invocations did
    sim,                \* the last call of DataLoader.simulate_trade_outcome:
                        \* its arguments and what it returned
    dl,                 \* two DataLoaders, each with its own processed series:
                        \* the call made on both and what each returned
    pw                  \* the PolicyWrapper running evaluate() or train() on
                        \* the environment: the loop's position and counters

envVars == <<data, max_steps, hold_periods, current_step, current_idx, balance,
             portfolio_state, episode_trades, action_counts, trade_outcomes,
             portfolio_tracking, reward_breakdown, ret, hist>>

vars == <<data, max_steps, hold_periods, current_step, current_idx, balance,
          portfolio_state, episode_trades, action_counts, trade_outcomes,
          portfolio_tracking, reward_breakdown, ret, hist, rc, se,
          clock, fs, hret, io, cmd, sim, dl, pw>>

\* the variables outside the environment and the two pure components
otherVars == <<clock, fs, hret, io, cmd, sim, dl>>

Min(a, b) == IF a <= b THEN a ELSE b

Max(a, b) == IF a >= b THEN a ELSE b

\* np.clip(x, lo, hi)
clip(x, lo, hi) == IF x < lo THEN lo ELSE IF x > hi THEN hi ELSE x

(***************************************************************************)
(* reward_calculator.py                                                    *)
(***************************************************************************)
ACTION_REJECT == 0

ACTION_APPROVE_WARNING == 1

ACTION_APPROVE == 2

Actions == {ACTION_REJECT, ACTION_APPROVE_WARNING, ACTION_APPROVE}

\* RewardCalculator.__init__ defaults (ten-thousandths, factors in tenths,
\* health_threshold in thousandths)
liquidation_penalty == -50000

good_rejection_reward == 10000

missed_opportunity_factor == 3

drawdown_penalty_factor == 5

health_bonus == 1000

health_threshold == 800

\* TradeOutcome(pnl, max_drawdown, was_liquidated, was_stopped,
\*              hit_take_profit, hold_periods)
TradeOutcome(pnl, dd, liq, stopped, tp, hold) ==
    [pnl |-> pnl, max_drawdown |-> dd, was_liquidated |-> liq,
     was_stopped |-> stopped, hit_take_profit |-> tp, hold_periods |-> hold]

\* The health bonus of calculate_reward (lines 126-128)
HealthBonusOf(portfolio_health) ==
    IF portfolio_health >= health_threshold THEN health_bonus ELSE 0

\* A REJECT branch that counts a rejection as good only on a negative pnl
reject_reward_pnl_only(o) ==
    IF o.pnl < 0
    THEN good_rejection_reward + (IF o.was_liquidated THEN 5000 ELSE 0)
    ELSE -(missed_opportunity_factor * Min(o.pnl, 500))

\* calculate_reward, the REJECT branch (lines 87-99)
reject_reward(o) ==
    IF o.was_liquidated \/ o.pnl < 0
    THEN good_rejection_reward + (IF o.was_liquidated THEN 5000 ELSE 0)
    ELSE -(missed_opportunity_factor * Min(o.pnl, 500))

\* An approval reward that grants the take-profit bonus after liquidation
approved_reward_bonus_after_liquidation(o) ==
    IF o.was_liquidated
    THEN liquidation_penalty + (IF o.hit_take_profit THEN 2000 ELSE 0)
    ELSE (o.pnl * 10 * 10 - o.max_drawdown * drawdown_penalty_factor * 10)
         - (IF o.was_stopped /\ o.pnl < 0 THEN 3000 ELSE 0)
         + (IF o.hit_take_profit THEN 2000 ELSE 0)

\* calculate_reward, the liquidated / risk-adjusted reward of an approval
\* (lines 103-120)
approved_outcome_reward(o) ==
    IF o.was_liquidated
    THEN liquidation_penalty
    ELSE (o.pnl * 10 * 10 - o.max_drawdown * drawdown_penalty_factor * 10)
         - (IF o.was_stopped /\ o.pnl < 0 THEN 3000 ELSE 0)
         + (IF o.hit_take_profit THEN 2000 ELSE 0)

\* calculate_reward, the penalty of approve_warning on a good outcome
\* (lines 122-124)
warning_penalty(action, o) ==
    IF action = ACTION_APPROVE_WARNING /\ o.pnl > 0 THEN 500 ELSE 0

\* RewardCalculator.calculate_reward
calculate_reward(action, o, portfolio_health) ==
    LET reward ==
            IF action = ACTION_REJECT THEN reject_reward(o)
            ELSE IF action \in {ACTION_APPROVE_WARNING, ACTION_APPROVE}
                 THEN approved_outcome_reward(o) - warning_penalty(action, o)
                 ELSE 0
    IN  reward + HealthBonusOf(portfolio_health)

\* sum(v for k, v in components.items() if k != "total") (lines 202-204)
ComponentSum(b) ==
    b.base_reward + b.pnl_component + b.drawdown_penalty
    + b.liquidation_penalty + b.missed_opportunity + b.good_rejection_bonus
    + b.health_bonus

\* The components dict of get_reward_breakdown as initialised (lines 168-177)
ZeroComponents ==
    [base_reward |-> 0, pnl_component |-> 0, drawdown_penalty |-> 0,
     liquidation_penalty |-> 0, missed_opportunity |-> 0,
     good_rejection_bonus |-> 0, health_bonus |-> 0, total |-> 0]

\* RewardCalculator.get_reward_breakdown
get_reward_breakdown(action, o, portfolio_health) ==
    LET isReject == action = ACTION_REJECT
        isApprove == ~isReject
                     /\ action \in {ACTION_APPROVE_WARNING, ACTION_APPROVE}
        goodRej == isReject /\ (o.was_liquidated \/ o.pnl < 0)
        c == [ZeroComponents EXCEPT
              !.pnl_component =
                  IF isApprove /\ ~o.was_liquidated THEN o.pnl * 10 * 10 ELSE 0,
              !.drawdown_penalty =
                  IF isApprove /\ ~o.was_liquidated
                  THEN -(o.max_drawdown * drawdown_penalty_factor * 10) ELSE 0,
              !.liquidation_penalty =
                  IF isApprove /\ o.was_liquidated
                  THEN liquidation_penalty ELSE 0,
              !.missed_opportunity =
                  IF isReject /\ ~goodRej
                  THEN -(missed_opportunity_factor * Min(o.pnl, 500)) ELSE 0,
              !.good_rejection_bonus =
                  IF goodRej
                  THEN good_rejection_reward
                       + (IF o.was_liquidated THEN 5000 ELSE 0)
                  ELSE 0,
              !.health_bonus = HealthBonusOf(portfolio_health)]
    IN  [c EXCEPT !.total = ComponentSum(c)]

(***************************************************************************)
(* One call of the reward calculator on inputs drawn from bounded sets.    *)
(***************************************************************************)
PnlValues == {-800, -600, -100, -1, 0, 1, 10, 50, 100, 500, 600}

DrawdownValues == {0, 10, 20, 150, 600, 850}

HealthValues == {0, 500, 799, 800, 900, 1000}

Outcomes ==
    {TradeOutcome(p, d, l, s, t, 12) :
        p \in PnlValues, d \in DrawdownValues,
        l \in BOOLEAN, s \in BOOLEAN, t \in BOOLEAN}

RewardIdle ==
    rc = [pc |-> "idle", action |-> ACTION_REJECT,
          outcome |-> TradeOutcome(0, 0, FALSE, FALSE, FALSE, 0),
          portfolio_health |-> 800, reward |-> 0,
          breakdown |-> ZeroComponents]

RewardInit ==
    rc \in [pc : {"call"}, action : Actions, outcome : Outcomes,
            portfolio_health : HealthValues, reward : {0},
            breakdown : {ZeroComponents}]

\* reward = calc.calculate_reward(action, outcome, portfolio_health)
\* breakdown = calc.get_reward_breakdown(action, outcome, portfolio_health)
RewardCall ==
    /\ rc.pc = "call"
    /\ rc' = [rc EXCEPT
              !.pc = "done",
              !.reward = calculate_reward(rc.action, rc.outcome,
                                          rc.portfolio_health),
              !.breakdown = get_reward_breakdown(rc.action, rc.outcome,
                                                 rc.portfolio_health)]

(***************************************************************************)
(* state_encoder.py                                                        *)
(***************************************************************************)
PORTFOLIO_FEATURES == 6

TRADE_FEATURES == 4

MARKET_FEATURES == 14

TOTAL_FEATURES == PORTFOLIO_FEATURES + TRADE_FEATURES + MARKET_FEATURES

\* feature_cols of encode_market_conditions, in order
feature_cols ==
    <<"rsi_14", "macd", "macd_signal", "macd_diff", "bb_position",
      "atr_normalized", "adx", "volume_ratio", "momentum_1h", "momentum_4h",
      "momentum_24h", "returns", "stoch_k", "stoch_d">>

FeatureCols == {feature_cols[i] : i \in 1..Len(feature_cols)}

\* StateEncoder.encode_portfolio: account_value in tenths of a dollar,
\* current_leverage in hundredths, health_score in thousandths of 100
encode_portfolio(ps) ==
    <<clip(ps.account_value \div 1000, 0, 1000),
      clip(ps.current_leverage, 0, 1000),
      clip(ps.margin_usage, 0, 1000),
      clip(ps.num_positions * 200, 0, 1000),
      clip(ps.liquidation_distance, 0, 1000),
      clip(ps.health_score, 0, 1000)>>

\* StateEncoder.encode_trade_proposal: size and account_value in tenths of a
\* dollar, leverage in hundredths
encode_trade_proposal(tp) ==
    <<clip((tp.size * 1000) \div tp.account_value, 0, 1000),
      clip(tp.leverage, 0, 1000),
      clip(tp.confidence, 0, 1000),
      clip(tp.z_score \div 3, -1000, 1000)>>

\* encode_market_conditions, the value appended for one column
\* (lines 151-166)
market_feature(col, val, already_normalized) ==
    IF already_normalized THEN val
    ELSE IF col = "rsi_14" THEN (val - 50000) \div 50
    ELSE IF col \in {"stoch_k", "stoch_d"} THEN (val - 50000) \div 50
    ELSE IF col = "adx" THEN val \div 50 - 1000
    ELSE IF col = "bb_position" THEN clip(val, -2000, 2000) \div 2
    ELSE IF col = "volume_ratio" THEN clip(val - 1000, -2000, 2000) \div 2
    ELSE clip(val, -3000, 3000) \div 3

\* StateEncoder.encode_market_conditions
encode_market_conditions(market_data, already_normalized) ==
    [i \in 1..MARKET_FEATURES |->
        market_feature(feature_cols[i], market_data[feature_cols[i]],
                       already_normalized)]

\* StateEncoder.encode
encode(ps, tp, market_data, already_normalized) ==
    encode_portfolio(ps) \o encode_trade_proposal(tp)
    \o encode_market_conditions(market_data, already_normalized)

\* StateEncoder.get_observation_space_bounds: low
observation_low ==
    <<0, 0, 0, 0, 0, 0>> \o <<0, 0, 0, -1000>>
    \o [i \in 1..MARKET_FEATURES |-> -3000]

\* StateEncoder.get_observation_space_bounds: high
observation_high ==
    <<1000, 1000, 1000, 1000, 1000, 1000>> \o <<1000, 1000, 1000, 1000>>
    \o [i \in 1..MARKET_FEATURES |-> 3000]

\* StateEncoder.create_dummy_state
create_dummy_state == [i \in 1..TOTAL_FEATURES |-> 0]

(***************************************************************************)
(* One call of StateEncoder.encode on inputs drawn from bounded sets.      *)
(***************************************************************************)
PortfolioInputs ==
    {[account_value |-> 100000, current_leverage |-> 0, margin_usage |-> 0,
      num_positions |-> 0, liquidation_distance |-> 1000,
      health_score |-> 1000],
     [account_value |-> 5000000, current_leverage |-> 5000,
      margin_usage |-> 2000, num_positions |-> 20,
      liquidation_distance |-> 2000, health_score |-> 2000],
     [account_value |-> 100, current_leverage |-> -100, margin_usage |-> -500,
      num_positions |-> 2, liquidation_distance |-> -1, health_score |-> 850]}

ProposalInputs ==
    {[size |-> 10000, leverage |-> 200, confidence |-> 800, z_score |-> 2500,
      account_value |-> 100000],
     [size |-> 200000, leverage |-> 2000, confidence |-> 1500,
      z_score |-> 6000, account_value |-> 100000],
     [size |-> 0, leverage |-> 100, confidence |-> 500, z_score |-> -7000,
      account_value |-> 50]}

MarketValues == {-5000, -3000, -1, 0, 1000, 3000, 5000, 50000, 100000}

\* market rows: one value in every column, or one column set and the rest 0
MarketInputs ==
    {[c \in FeatureCols |-> v] : v \in MarketValues}
    \cup {[c \in FeatureCols |-> IF c = k THEN v ELSE 0] :
            k \in FeatureCols, v \in MarketValues}

EncodeIdle ==
    se = [pc |-> "idle", already_normalized |-> TRUE, state |-> <<>>]

EncodeInit ==
    \E ps \in PortfolioInputs, tp \in ProposalInputs, md \in MarketInputs,
       norm \in BOOLEAN :
        se = [pc |-> "call", portfolio_state |-> ps, trade_proposal |-> tp,
              market_data |-> md, already_normalized |-> norm,
              state |-> <<>>]

\* state = encoder.encode(portfolio_state, trade_proposal, market_data,
\*                        already_normalized)
EncodeCall ==
    /\ se.pc = "call"
    /\ se' = [se EXCEPT
              !.pc = "done",
              !.state = encode(se.portfolio_state, se.trade_proposal,
                               se.market_data, se.already_normalized)]

(***************************************************************************)
(* data_loader.py: market rows and DataLoader.simulate_trade_outcome       *)
(*                                                                         *)
(* A market row holds close, high, low (integer prices) and f, the 14      *)
(* indicator columns (thousandths).  Rows are numbered from 0 as in the    *)
(* code.                                                                   *)
(***************************************************************************)
MarketRow(close, high, low, macd_diff, momentum_1h, atr_normalized) ==
    [close |-> close, high |-> high, low |-> low,
     f |-> [c \in FeatureCols |->
              IF c = "macd_diff" THEN macd_diff
              ELSE IF c = "momentum_1h" THEN momentum_1h
              ELSE IF c = "atr_normalized" THEN atr_normalized
              ELSE 0]]

\* row i (from 0) of the rising series: close rises by 5 per row; the
\* signals say long; leverage 1.0
RiseRow(i) == MarketRow(100 + 5 * i, 101 + 5 * i, 99 + 5 * i, 10, 10, 20)

\* row i of the falling series: close falls by 10 per row; the signals say
\* long; leverage 2.0
FallRow(i) == MarketRow(200 - 10 * i, 201 - 10 * i, 199 - 10 * i, 10, 10, 0)

\* row i of the whipsaw series: the price jumps between 100 and 300 against
\* the signal of every row (short at 100, long at 300); leverage 2.0: every
\* trade with a later row in its hold window is liquidated
WhipsawRow(i) ==
    IF i % 2 = 0 THEN MarketRow(100, 100, 100, -10, -10, 0)
    ELSE MarketRow(300, 300, 300, 10, 10, 0)

\* row i of the uptrend series of test_simulate_trade_outcome_long
\* (test_rl.py lines 385-392), prices in half units: close 100 + 0.5 i,
\* high 105 and low 95 in every row
UptrendRow(i) == MarketRow(200 + i, 210, 190, 10, 10, 20)

\* row i of the downtrend series of test_simulate_trade_outcome_short
\* (test_rl.py lines 410-417): close 100 - 0.5 i, high 105, low 95
DowntrendRow(i) == MarketRow(200 - i, 210, 190, -10, -10, 20)

\* periods of the two test series (test_rl.py lines 386, 411)
TestRows == 20

\* hold_periods of the two tests (test_rl.py lines 398, 423)
TestHold == 10

\* A DataFrame is named by the kind and the length of its series; self.data
\* is None is NoData
NoData == [is_none |-> TRUE, kind |-> "none", n |-> 0]

DataFrame(kind, n) == [is_none |-> FALSE, kind |-> kind, n |-> n]

\* len(df)
DataLen(df) == df.n

\* df.iloc[i], 0 <= i < len(df)
iloc(df, i) ==
    IF df.kind = "rise" THEN RiseRow(i)
    ELSE IF df.kind = "fall" THEN FallRow(i)
    ELSE IF df.kind = "uptrend" THEN UptrendRow(i)
    ELSE IF df.kind = "downtrend" THEN DowntrendRow(i)
    ELSE WhipsawRow(i)

SetMin(S) == CHOOSE x \in S : \A y \in S : x <= y

SetMax(S) == CHOOSE x \in S : \A y \in S : x >= y

\* A hold window that is not cut at the end of the series
hold_periods_unclamped(len, entry_idx, hold) == hold

\* simulate_trade_outcome, lines 237-238: the hold window never passes the
\* last row
clamp_hold_periods(len, entry_idx, hold) ==
    IF entry_idx + hold >= len THEN len - entry_idx - 1 ELSE hold

\* A simulation that computes the pnl of every trade as that of a long trade
simulate_every_trade_long(df, entry_idx, direction, leverage, hold) ==
    LET hp == clamp_hold_periods(DataLen(df), entry_idx, hold)
        entry_price == iloc(df, entry_idx).close
        max_idx == entry_idx + hp
        window == entry_idx..max_idx
        highs_max == SetMax({iloc(df, i).high : i \in window})
        lows_min == SetMin({iloc(df, i).low : i \in window})
        exit_price == iloc(df, max_idx).close
        long == direction = "long"
    IN  [pnl |-> ((exit_price - entry_price) * leverage * 10)
                 \div entry_price,
         max_drawdown |->
             IF long
             THEN ((entry_price - lows_min) * leverage * 10) \div entry_price
             ELSE ((highs_max - entry_price) * leverage * 10)
                  \div entry_price,
         was_stopped |->
             IF long
             THEN lows_min * leverage <= entry_price * (leverage - 5)
             ELSE highs_max * leverage >= entry_price * (leverage + 5),
         hit_take_profit |->
             IF long
             THEN highs_max * leverage >= entry_price * (leverage + 10)
             ELSE lows_min * leverage <= entry_price * (leverage - 10),
         was_liquidated |->
             IF long
             THEN (entry_price - lows_min) * leverage * leverage
                  >= 8000 * entry_price
             ELSE (highs_max - entry_price) * leverage * leverage
                  >= 8000 * entry_price,
         hold_periods |-> hp,
         entry_price |-> entry_price, exit_price |-> exit_price]

\* A simulation that closes the trade at the first row of the hold window
\* whose low (long) or high (short) reaches the stop-loss price
simulate_exiting_at_stop(df, entry_idx, direction, leverage, hold) ==
    LET hp == clamp_hold_periods(DataLen(df), entry_idx, hold)
        entry_price == iloc(df, entry_idx).close
        max_idx == entry_idx + hp
        window == entry_idx..max_idx
        highs_max == SetMax({iloc(df, i).high : i \in window})
        lows_min == SetMin({iloc(df, i).low : i \in window})
        long == direction = "long"
        stopped_at(i) ==
            IF long
            THEN iloc(df, i).low * leverage <= entry_price * (leverage - 5)
            ELSE iloc(df, i).high * leverage >= entry_price * (leverage + 5)
        exit_idx == SetMin({i \in window : stopped_at(i)} \cup {max_idx})
        exit_price == iloc(df, exit_idx).close
    IN  [pnl |-> IF long
                 THEN ((exit_price - entry_price) * leverage * 10)
                      \div entry_price
                 ELSE ((entry_price - exit_price) * leverage * 10)
                      \div entry_price,
         max_drawdown |->
             IF long
             THEN ((entry_price - lows_min) * leverage * 10) \div entry_price
             ELSE ((highs_max - entry_price) * leverage * 10)
                  \div entry_price,
         was_stopped |-> \E i \in window : stopped_at(i),
         hit_take_profit |->
             IF long
             THEN highs_max * leverage >= entry_price * (leverage + 10)
             ELSE lows_min * leverage <= entry_price * (leverage - 10),
         was_liquidated |->
             IF long
             THEN (entry_price - lows_min) * leverage * leverage
                  >= 8000 * entry_price
             ELSE (highs_max - entry_price) * leverage * leverage
                  >= 8000 * entry_price,
         hold_periods |-> exit_idx - entry_idx,
         entry_price |-> entry_price, exit_price |-> exit_price]

\* DataLoader.simulate_trade_outcome(df, entry_idx, direction, leverage,
\* hold_periods) with the default stop_loss_pct = 0.05 and
\* take_profit_pct = 0.10; entry_idx < len(df) (df.iloc[entry_idx] raises
\* IndexError otherwise, see simulate_raises)
simulate_trade_outcome(df, entry_idx, direction, leverage, hold) ==
    LET hp == clamp_hold_periods(DataLen(df), entry_idx, hold)
        entry_price == iloc(df, entry_idx).close
        max_idx == entry_idx + hp
        window == entry_idx..max_idx
        highs_max == SetMax({iloc(df, i).high : i \in window})
        lows_min == SetMin({iloc(df, i).low : i \in window})
        exit_price == iloc(df, max_idx).close
        long == direction = "long"
        max_drawdown ==
            IF long
            THEN ((entry_price - lows_min) * leverage * 10) \div entry_price
            ELSE ((highs_max - entry_price) * leverage * 10) \div entry_price
        was_stopped ==
            IF long
            THEN lows_min * leverage <= entry_price * (leverage - 5)
            ELSE highs_max * leverage >= entry_price * (leverage + 5)
        hit_tp ==
            IF long
            THEN highs_max * leverage >= entry_price * (leverage + 10)
            ELSE lows_min * leverage <= entry_price * (leverage - 10)
        pnl ==
            IF long
            THEN ((exit_price - entry_price) * leverage * 10) \div entry_price
            ELSE ((entry_price - exit_price) * leverage * 10) \div entry_price
        \* max_drawdown >= 0.8 / leverage
        was_liquidated ==
            IF long
            THEN (entry_price - lows_min) * leverage * leverage
                 >= 8000 * entry_price
            ELSE (highs_max - entry_price) * leverage * leverage
                 >= 8000 * entry_price
    IN  [pnl |-> pnl, max_drawdown |-> max_drawdown,
         was_stopped |-> was_stopped, hit_take_profit |-> hit_tp,
         was_liquidated |-> was_liquidated, hold_periods |-> hp,
         entry_price |-> entry_price, exit_price |-> exit_price]

\* df.iloc[entry_idx] at line 240 raises IndexError when entry_idx is past
\* the last row
simulate_raises(df, entry_idx) == entry_idx >= DataLen(df)

\* the rows simulate_trade_outcome reads (lines 240-246)
simulate_rows_read(df, entry_idx, hold) ==
    IF simulate_raises(df, entry_idx) THEN {entry_idx}
    ELSE entry_idx..(entry_idx
                     + clamp_hold_periods(DataLen(df), entry_idx, hold))

(***************************************************************************)
(* environment.py: TradeApprovalEnv                                        *)
(***************************************************************************)
\* TradeApprovalEnv.__init__ defaults: initial_balance = 10000.0 (tenths of a
\* dollar), max_leverage = 3.0 (hundredths)
initial_balance == 100000

max_leverage == 300

\* TradeApprovalEnv._get_initial_portfolio_state
get_initial_portfolio_state ==
    [account_value |-> initial_balance, current_leverage |-> 0,
     margin_usage |-> 0, num_positions |-> 0, liquidation_distance |-> 1000,
     health_score |-> 1000]

\* TradeApprovalEnv._get_dummy_proposal
get_dummy_proposal(bal) ==
    [size |-> bal \div 10, leverage |-> 100, confidence |-> 500,
     z_score |-> 0, direction |-> "long", account_value |-> bal]

\* |x|
Abs(x) == IF x < 0 THEN -x ELSE x

\* TradeApprovalEnv._generate_trade_proposal
generate_trade_proposal(d, idx, bal) ==
    IF d.is_none \/ idx >= DataLen(d) THEN get_dummy_proposal(bal)
    ELSE
        LET row == iloc(d, idx)
            macd_diff == row.f["macd_diff"]
            momentum == row.f["momentum_1h"]
            signal_strength == Abs(macd_diff) * 10 + Abs(momentum) * 5
            confidence == Min(900, 300 + signal_strength \div 10)
            atr == row.f["atr_normalized"]
        IN  [size |-> ((bal \div 10) * (500 + confidence)) \div 1000,
             leverage |-> Min(max_leverage, Max(100, 200 - 5 * atr)),
             confidence |-> confidence,
             z_score |-> row.f["bb_position"],
             direction |-> IF macd_diff > 0 /\ momentum > 0
                           THEN "long" ELSE "short",
             account_value |-> bal]

\* TradeApprovalEnv._get_observation
get_observation(d, idx, bal, ps) ==
    IF d.is_none \/ idx >= DataLen(d) THEN create_dummy_state
    ELSE encode(ps, generate_trade_proposal(d, idx, bal),
                iloc(d, idx).f, TRUE)

\* the rows _get_observation reads (lines 192-196, 140-143)
observation_rows_read(d, idx) ==
    IF d.is_none \/ idx >= DataLen(d) THEN {} ELSE {idx}

\* TradeApprovalEnv._simulate_outcome, when simulate_trade_outcome does not
\* raise
simulate_outcome(d, idx, bal, hold) ==
    IF d.is_none THEN TradeOutcome(0, 0, FALSE, FALSE, FALSE, 0)
    ELSE
        LET proposal == generate_trade_proposal(d, idx, bal)
            od == simulate_trade_outcome(d, idx, proposal.direction,
                                         proposal.leverage, hold)
        IN  TradeOutcome(od.pnl, od.max_drawdown, od.was_liquidated,
                         od.was_stopped, od.hit_take_profit, od.hold_periods)

\* _simulate_outcome raises (IndexError out of simulate_trade_outcome)
simulate_outcome_raises(d, idx) ==
    ~d.is_none /\ simulate_raises(d, idx)

\* the rows _simulate_outcome reads
outcome_rows_read(d, idx, hold) ==
    IF d.is_none THEN {}
    ELSE observation_rows_read(d, idx)
         \cup simulate_rows_read(d, idx, hold)

\* a balance update that settles the trade whatever the action was
balance_settling_rejections(bal, action, outcome) ==
    IF ~outcome.was_liquidated
    THEN bal + (bal * outcome.pnl) \div 10000
    ELSE (bal * 9) \div 10

\* _update_portfolio: the new balance (lines 237-244)
updated_balance(bal, action, outcome) ==
    IF action \in {1, 2}
    THEN IF ~outcome.was_liquidated
         THEN bal + (bal * outcome.pnl) \div 10000
         ELSE (bal * 9) \div 10
    ELSE bal

\* _update_portfolio: the new portfolio state (lines 247-254)
updated_portfolio_state(bal) ==
    [account_value |-> bal, current_leverage |-> 0, margin_usage |-> 0,
     num_positions |-> 0, liquidation_distance |-> 1000,
     health_score |-> Min(1000, Max(0, (bal * 1000) \div initial_balance))]

\* _reset_detailed_tracking: self._action_counts
InitialActionCounts == [reject |-> 0, approve_warning |-> 0, approve |-> 0]

\* _reset_detailed_tracking: self._trade_outcomes
InitialTradeOutcomes ==
    [total_trades |-> 0, approved_trades |-> 0, rejected_trades |-> 0,
     profitable_approved |-> 0, losing_approved |-> 0, liquidations |-> 0,
     good_rejections |-> 0, missed_opportunities |-> 0]

\* _reset_detailed_tracking: self._portfolio_tracking
InitialPortfolioTracking ==
    [starting_balance |-> initial_balance, min_balance |-> initial_balance,
     max_balance |-> initial_balance, min_health_score |-> 1000]

\* _reset_detailed_tracking: self._reward_breakdown
InitialRewardBreakdown ==
    [pnl_rewards |-> 0, rejection_rewards |-> 0, health_bonuses |-> 0,
     liquidation_penalties |-> 0]

\* self.episode_trades = [] and self.episode_rewards = []: the lists are
\* kept as what get_episode_stats reads of them (their length, the actions
\* by kind, the sum of the rewards)
InitialEpisodeTrades ==
    [len |-> 0, num_approved |-> 0, num_rejected |-> 0, total_reward |-> 0]

\* _update_detailed_tracking: self._action_counts (lines 259-260)
updated_action_counts(ac, action) ==
    IF action = 0 THEN [ac EXCEPT !.reject = @ + 1]
    ELSE IF action = 1 THEN [ac EXCEPT !.approve_warning = @ + 1]
    ELSE [ac EXCEPT !.approve = @ + 1]

\* a tally that books a liquidated approval as a losing one as well
trade_outcomes_double_counting(t, action, outcome) ==
    LET t1 == [t EXCEPT !.total_trades = @ + 1]
    IN  IF action = 0
        THEN LET t2 == [t1 EXCEPT !.rejected_trades = @ + 1]
             IN  IF outcome.pnl < 0 \/ outcome.was_liquidated
                 THEN [t2 EXCEPT !.good_rejections = @ + 1]
                 ELSE IF outcome.pnl > 0
                      THEN [t2 EXCEPT !.missed_opportunities = @ + 1]
                      ELSE t2
        ELSE LET t2 == [t1 EXCEPT !.approved_trades = @ + 1]
                 t3 == IF outcome.was_liquidated
                       THEN [t2 EXCEPT !.liquidations = @ + 1]
                       ELSE t2
             IN  IF outcome.pnl > 0 /\ ~outcome.was_liquidated
                 THEN [t3 EXCEPT !.profitable_approved = @ + 1]
                 ELSE [t3 EXCEPT !.losing_approved = @ + 1]

\* _update_detailed_tracking: self._trade_outcomes (lines 263-278)
updated_trade_outcomes(t, action, outcome) ==
    LET t1 == [t EXCEPT !.total_trades = @ + 1]
    IN  IF action = 0
        THEN LET t2 == [t1 EXCEPT !.rejected_trades = @ + 1]
             IN  IF outcome.pnl < 0 \/ outcome.was_liquidated
                 THEN [t2 EXCEPT !.good_rejections = @ + 1]
                 ELSE IF outcome.pnl > 0
                      THEN [t2 EXCEPT !.missed_opportunities = @ + 1]
                      ELSE t2
        ELSE LET t2 == [t1 EXCEPT !.approved_trades = @ + 1]
             IN  IF outcome.was_liquidated
                 THEN [t2 EXCEPT !.liquidations = @ + 1]
                 ELSE IF outcome.pnl > 0
                      THEN [t2 EXCEPT !.profitable_approved = @ + 1]
                      ELSE [t2 EXCEPT !.losing_approved = @ + 1]

\* _update_detailed_tracking: self._portfolio_tracking (lines 281-290)
updated_portfolio_tracking(pt, bal, ps) ==
    [pt EXCEPT !.min_balance = Min(@, bal),
               !.max_balance = Max(@, bal),
               !.min_health_score = Min(@, ps.health_score)]

\* _update_detailed_tracking: self._reward_breakdown (lines 293-300)
updated_reward_breakdown(rb, b) ==
    [rb EXCEPT !.pnl_rewards = @ + b.pnl_component,
               !.rejection_rewards = @ + b.good_rejection_bonus,
               !.health_bonuses = @ + b.health_bonus,
               !.liquidation_penalties = @ + b.liquidation_penalty]

\* An account that counts as blown only when nothing is left
is_terminated_at_zero(bal) == bal <= 0

\* A truncation that looks at max_steps only
is_truncated_by_steps_only(d, idx, hold, step, maxsteps) == step >= maxsteps

\* TradeApprovalEnv.get_episode_stats: {} (empty) without episode trades
get_episode_stats ==
    IF episode_trades.len = 0
    THEN [empty |-> TRUE]
    ELSE [empty |-> FALSE,
          num_trades |-> episode_trades.len,
          num_approved |-> episode_trades.num_approved,
          num_rejected |-> episode_trades.num_rejected,
          total_reward |-> episode_trades.total_reward,
          final_balance |-> balance]

\* TradeApprovalEnv.get_detailed_episode_stats: {} (empty) without episode
\* trades
get_detailed_episode_stats ==
    IF episode_trades.len = 0
    THEN [empty |-> TRUE]
    ELSE [empty |-> FALSE,
          action_counts |-> action_counts,
          trade_outcomes |-> trade_outcomes,
          starting_balance |-> portfolio_tracking.starting_balance,
          ending_balance |-> balance,
          min_health_score |-> portfolio_tracking.min_health_score,
          final_health_score |-> portfolio_state.health_score,
          reward_breakdown |-> reward_breakdown]

\* step, line 387: the account is blown
is_terminated(bal) == bal * 10 <= initial_balance

\* step, lines 390-395: the end of the data or max_steps is reached
is_truncated(d, idx, hold, step, maxsteps) ==
    \/ ~d.is_none /\ idx >= DataLen(d) - hold
    \/ step >= maxsteps

(***************************************************************************)
(* The environments explored: market series, max_steps and hold_periods.   *)
(***************************************************************************)
\* longest series of the rising and falling kind
MaxShortLen == 5

\* length of the long whipsaw series
LongLen == 25

\* the largest max_steps
LongSteps == 22

\* largest hold_periods
MaxHold == 3

\* steps explored after an episode is over
ExtraSteps == 1

\* (data, max_steps, hold_periods) of the environments constructed: without
\* data, and the short series with every hold_periods
ShortSeries ==
    {DataFrame(k, n) : k \in {"rise", "fall", "whipsaw"},
                       n \in 1..MaxShortLen}

EnvChoices ==
    ({NoData} \X {2, 10} \X {1})
    \cup (ShortSeries \X {1, 2, 10} \X (1..MaxHold))

\* the long whipsaw series, on which 22 approvals blow the account
LongChoices == {<<DataFrame("whipsaw", LongLen), LongSteps, MaxHold>>}

\* start_idx values passed in options to reset
StartOptions(d) == {0, DataLen(d) - 1, DataLen(d)} \cap Nat

\* the value returned by a call that has not happened
NoReturn ==
    [op |-> "init", action |-> 0, reward |-> 0, terminated |-> FALSE,
     truncated |-> FALSE, raised |-> "none", rows_read |-> {}]

\* TradeApprovalEnv.__init__ (lines 87-99)
EnvInit(choices) ==
    /\ \E c \in choices :
          /\ data = c[1]
          /\ max_steps = c[2]
          /\ hold_periods = c[3]
    /\ current_step = 0
    /\ current_idx = 0
    /\ balance = initial_balance
    /\ portfolio_state = get_initial_portfolio_state
    /\ episode_trades = InitialEpisodeTrades
    /\ action_counts = InitialActionCounts
    /\ trade_outcomes = InitialTradeOutcomes
    /\ portfolio_tracking = InitialPortfolioTracking
    /\ reward_breakdown = InitialRewardBreakdown
    /\ ret = NoReturn
    /\ hist = [started |-> "init", episode_over |-> FALSE, extra |-> 0,
               after_steps |-> FALSE]

\* no environment: the state of the variables while a pure component is
\* exercised
EnvIdle ==
    /\ data = NoData
    /\ max_steps = 0
    /\ hold_periods = 0
    /\ current_step = 0
    /\ current_idx = 0
    /\ balance = initial_balance
    /\ portfolio_state = get_initial_portfolio_state
    /\ episode_trades = InitialEpisodeTrades
    /\ action_counts = InitialActionCounts
    /\ trade_outcomes = InitialTradeOutcomes
    /\ portfolio_tracking = InitialPortfolioTracking
    /\ reward_breakdown = InitialRewardBreakdown
    /\ ret = NoReturn
    /\ hist = [started |-> "init", episode_over |-> FALSE, extra |-> 0,
               after_steps |-> FALSE]

\* reset, lines 331-332: the start indices np_random.integers can return
random_start_indices(d, maxsteps, hold) ==
    IF d.is_none THEN {0}
    ELSE LET max_start == DataLen(d) - maxsteps - hold - 1
         IN  0..(Max(1, max_start) - 1)

\* A reset that keeps the detailed tracking of the episode before
reset_keeping_tracking(idx, how) ==
    /\ current_step' = 0
    /\ balance' = initial_balance
    /\ episode_trades' = InitialEpisodeTrades
    /\ portfolio_state' = get_initial_portfolio_state
    /\ current_idx' = idx
    /\ ret' = [NoReturn EXCEPT !.op = "reset",
                               !.rows_read = observation_rows_read(data, idx)]
    /\ hist' = [started |-> how, episode_over |-> FALSE, extra |-> 0,
                after_steps |-> episode_trades.len > 0]
    /\ UNCHANGED <<data, max_steps, hold_periods, action_counts,
                   trade_outcomes, portfolio_tracking, reward_breakdown,
                   rc, se, otherVars>>

\* reset, lines 317-324 and 336-342, once self.current_idx is chosen
ResetTo(idx, how) ==
    /\ current_step' = 0
    /\ balance' = initial_balance
    /\ episode_trades' = InitialEpisodeTrades
    /\ portfolio_state' = get_initial_portfolio_state
    /\ action_counts' = InitialActionCounts
    /\ trade_outcomes' = InitialTradeOutcomes
    /\ portfolio_tracking' = InitialPortfolioTracking
    /\ reward_breakdown' = InitialRewardBreakdown
    /\ current_idx' = idx
    /\ ret' = [NoReturn EXCEPT !.op = "reset",
                               !.rows_read = observation_rows_read(data, idx)]
    /\ hist' = [started |-> how, episode_over |-> FALSE, extra |-> 0,
                after_steps |-> episode_trades.len > 0]
    /\ UNCHANGED <<data, max_steps, hold_periods, rc, se, otherVars>>

\* TradeApprovalEnv.reset() without options
Reset ==
    /\ \E idx \in random_start_indices(data, max_steps, hold_periods) :
        ResetTo(idx, "random")
    /\ UNCHANGED pw

\* TradeApprovalEnv.reset(options={"start_idx": idx})
ResetAt ==
    /\ \E idx \in StartOptions(data) : ResetTo(idx, "options")
    /\ UNCHANGED pw

\* TradeApprovalEnv.step(action) when _simulate_outcome raises: nothing of
\* the environment is assigned before line 355 returns
StepRaises(action) ==
    /\ simulate_outcome_raises(data, current_idx)
    /\ ret' = [NoReturn EXCEPT
               !.op = "step", !.action = action, !.raised = "IndexError",
               !.rows_read = outcome_rows_read(data, current_idx,
                                               hold_periods)]
    /\ hist' = [hist EXCEPT
                !.extra = IF hist.episode_over THEN @ + 1 ELSE @]
    /\ UNCHANGED <<data, max_steps, hold_periods, current_step, current_idx,
                   balance, portfolio_state, episode_trades, action_counts,
                   trade_outcomes, portfolio_tracking, reward_breakdown,
                   rc, se, otherVars>>

\* the health step had read after its balance update instead of before it
portfolio_health_after_update(before, after) == after.health_score

\* step, line 358: portfolio_health is read from portfolio_state before
\* _update_portfolio (line 365) replaces it; before and after are the
\* snapshots on either side of that update
step_portfolio_health(before, after) == before.health_score

\* a truncation flag that ignored the termination check
truncated_regardless(terminated, at_limit) == at_limit

\* step, lines 383-395: the data and step limits are elif branches of the
\* balance check, so truncated is set only when terminated was not
step_truncated(terminated, at_limit) == ~terminated /\ at_limit

\* TradeApprovalEnv.step(action) (lines 354-412); each value of the body is
\* bound once, in the order the code computes it
StepReturns(action) ==
    /\ ~simulate_outcome_raises(data, current_idx)
    /\ \E outcome \in {simulate_outcome(data, current_idx, balance,
                                        hold_periods)} :
       \E bal \in {updated_balance(balance, action, outcome)} :
       \E ps \in {updated_portfolio_state(bal)} :
       \E portfolio_health \in {step_portfolio_health(portfolio_state, ps)} :
       \E reward \in {calculate_reward(action, outcome, portfolio_health)} :
       \E breakdown \in {get_reward_breakdown(action, outcome,
                                              portfolio_health)} :
       \E terminated \in {is_terminated(bal)} :
       \E truncated \in {step_truncated(
                             terminated,
                             is_truncated(data, current_idx + 1, hold_periods,
                                          current_step + 1, max_steps))} :
           /\ balance' = bal
           /\ portfolio_state' = ps
           /\ episode_trades' =
                  [len |-> episode_trades.len + 1,
                   num_approved |-> episode_trades.num_approved
                                    + (IF action > 0 THEN 1 ELSE 0),
                   num_rejected |-> episode_trades.num_rejected
                                    + (IF action = 0 THEN 1 ELSE 0),
                   total_reward |-> episode_trades.total_reward + reward]
           /\ action_counts' = updated_action_counts(action_counts, action)
           /\ trade_outcomes' =
                  updated_trade_outcomes(trade_outcomes, action, outcome)
           /\ portfolio_tracking' =
                  updated_portfolio_tracking(portfolio_tracking, bal, ps)
           /\ reward_breakdown' =
                  updated_reward_breakdown(reward_breakdown, breakdown)
           /\ current_step' = current_step + 1
           /\ current_idx' = current_idx + 1
           /\ ret' = [op |-> "step", action |-> action, reward |-> reward,
                      terminated |-> terminated, truncated |-> truncated,
                      raised |-> "none",
                      rows_read |->
                          outcome_rows_read(data, current_idx, hold_periods)
                          \cup observation_rows_read(data, current_idx + 1)]
           /\ hist' = [hist EXCEPT
                       !.episode_over = @ \/ terminated \/ truncated,
                       !.extra = IF hist.episode_over THEN @ + 1 ELSE @]
    /\ UNCHANGED <<data, max_steps, hold_periods, rc, se, otherVars>>

\* step is called; after the end of an episode at most ExtraSteps more steps
\* are explored
Step ==
    /\ hist.episode_over => hist.extra < ExtraSteps
    /\ \E action \in Actions : StepRaises(action) \/ StepReturns(action)
    /\ UNCHANGED pw

(***************************************************************************)
(* training_history.py: TrainingHistoryManager.  A run directory holds     *)
(* config.json, metrics.json, detailed_episodes.jsonl and the files of     *)
(* checkpoints/; each is modelled by its parsed content.                   *)
(***************************************************************************)
\* instants of datetime.now() in one second
TicksPerSecond == 2

\* last instant of the clock
MaxClock == 2

\* longest lists explored in metrics.json and detailed_episodes.jsonl
MaxEpisodes == 2

MaxEvaluations == 1

MaxCheckpoints == 2

MaxDetailed == 1

\* most calls on the manager in one behaviour
MaxCalls == 4

\* datetime.now().strftime('%Y%m%d_%H%M%S'): the instant cut to its second
strftime_seconds(now) == now \div TicksPerSecond

\* f"run_{...}": the run ids create_run can produce
RunIds == 0..strftime_seconds(MaxClock)

\* the hyperparameter dicts passed to create_run
Configs == {"lr_3e-4", "lr_1e-3"}

\* the training steps checkpoints are saved for
CheckpointSteps == {50000, 100000}

\* the final_metrics passed to mark_completed: {} / None, or a dict
FinalMetrics == {"", "final"}

EmptyMetrics == [episodes |-> <<>>, evaluations |-> <<>>, checkpoints |-> <<>>]

NoConfig ==
    [run_id |-> -1, created_at |-> -1, status |-> "none", completed_at |-> -1,
     final_metrics |-> "", user |-> ""]

\* a run directory that does not exist
NoRun ==
    [exists |-> FALSE, config |-> NoConfig, metrics |-> EmptyMetrics,
     detailed |-> <<>>, files |-> {}]

\* create_run, lines 186-206: mkdir(exist_ok=True) keeps what the directory
\* holds, config.json and metrics.json are written anew
create_run(f, now, config) ==
    LET run_id == strftime_seconds(now)
    IN  [f EXCEPT ![run_id] =
            [exists |-> TRUE,
             config |-> [run_id |-> run_id, created_at |-> now,
                         status |-> "in_progress", completed_at |-> -1,
                         final_metrics |-> "", user |-> config],
             metrics |-> EmptyMetrics,
             detailed |-> @.detailed,
             files |-> @.files]]

\* A log_episode that writes a metrics file holding the new record only
log_episode_rewriting(f, now, run_id, episode, reward, length, timestep) ==
    [f EXCEPT ![run_id].metrics =
        [EmptyMetrics EXCEPT !.episodes =
            <<[episode |-> episode, reward |-> reward, length |-> length,
               timestamp |-> now, timestep |-> timestep]>>]]

\* log_episode, lines 226-241
log_episode(f, now, run_id, episode, reward, length, timestep) ==
    [f EXCEPT ![run_id].metrics.episodes =
        Append(@, [episode |-> episode, reward |-> reward, length |-> length,
                   timestamp |-> now, timestep |-> timestep])]

\* log_detailed_episode, lines 271-293: one line appended to the JSONL file
log_detailed_episode(f, now, run_id, episode, reward, length, timestep) ==
    [f EXCEPT ![run_id].detailed =
        Append(@, [episode |-> episode, reward |-> reward, length |-> length,
                   timestep |-> timestep, timestamp |-> now])]

\* log_evaluation, lines 315-331
log_evaluation(f, now, run_id, step, mean_reward) ==
    [f EXCEPT ![run_id].metrics.evaluations =
        Append(@, [step |-> step, mean_reward |-> mean_reward,
                   timestamp |-> now])]

\* save_checkpoint, lines 344-365: model.save writes model_step_<step>.zip,
\* then the checkpoint is registered in metrics.json
save_checkpoint(f, now, run_id, step) ==
    [f EXCEPT ![run_id].files = @ \cup {step},
              ![run_id].metrics.checkpoints =
                  Append(@, [step |-> step, path |-> step, timestamp |-> now])]

\* the decimal digits of n, as str(n) writes them
RECURSIVE digits(_)
digits(n) == IF n < 10 THEN <<n>> ELSE Append(digits(n \div 10), n % 10)

\* the characters of "<step>.zip" after the common prefix "model_step_";
\* '.' sorts before every digit
checkpoint_name(step) == Append(digits(step), -1)

\* str.__lt__ on two file names: the first differing character decides, a
\* proper prefix is smaller
name_less(a, b) ==
    \E i \in 1..(Min(Len(a), Len(b)) + 1) :
        /\ \A j \in 1..(i - 1) : a[j] = b[j]
        /\ IF i > Len(a) THEN i <= Len(b)
           ELSE i <= Len(b) /\ a[i] < b[i]

\* sorted(checkpoint_dir.glob("model_step_*.zip"))[-1]
last_sorted(files) ==
    CHOOSE s \in files :
        \A t \in files :
            t = s \/ name_less(checkpoint_name(t), checkpoint_name(s))

\* load_checkpoint, lines 377-390; step = 0 stands for step=None
load_checkpoint(f, run_id, step) ==
    IF step # 0
    THEN IF step \notin f[run_id].files
         THEN [raised |-> "FileNotFoundError", step |-> -1]
         ELSE [raised |-> "none", step |-> step]
    ELSE IF f[run_id].files = {}
         THEN [raised |-> "FileNotFoundError", step |-> -1]
         ELSE [raised |-> "none", step |-> last_sorted(f[run_id].files)]

\* mark_completed, lines 400-410
mark_completed(f, now, run_id, final_metrics) ==
    [f EXCEPT ![run_id].config =
        [@ EXCEPT !.status = "completed",
                  !.completed_at = now,
                  !.final_metrics =
                      IF final_metrics # "" THEN final_metrics ELSE @]]

\* list_runs, lines 419-442: the run directories that hold a config.json
list_runs(f) == {r \in DOMAIN f : f[r].exists}

\* A delete_run that removes base_dir
delete_every_run(f, run_id) == [r \in DOMAIN f |-> NoRun]

\* delete_run with confirm=True, lines 471-475
delete_run(f, run_id) == [f EXCEPT ![run_id] = NoRun]

\* no call on the manager yet
NoHistoryReturn ==
    [op |-> "none", run_id |-> -1, raised |-> "none", arg |-> 0, step |-> -1,
     runs |-> {}, created_before |-> {}, created |-> {}, calls |-> 0]

\* TrainingHistoryManager(): an empty base_dir
HistoryIdle ==
    /\ clock = 0
    /\ fs = [r \in RunIds |-> NoRun]
    /\ hret = NoHistoryReturn

\* what a call records: its arguments and result, and the run ids create_run
\* had returned before it
Returned(op, run_id, raised) ==
    [NoHistoryReturn EXCEPT
        !.op = op, !.run_id = run_id, !.raised = raised,
        !.created_before = hret.created, !.created = hret.created,
        !.calls = hret.calls + 1]

\* a call that raises before it writes anything
Raises(op, run_id, error) ==
    /\ hret' = Returned(op, run_id, error)
    /\ UNCHANGED <<clock, fs>>

\* what no call on the manager touches
nonHistoryVars == <<envVars, rc, se, io, cmd, sim, dl, pw>>

\* time passes
Tick ==
    /\ clock < MaxClock
    /\ clock' = clock + 1
    /\ UNCHANGED <<fs, hret>>
    /\ UNCHANGED nonHistoryVars

CreateRun ==
    /\ hret.calls < MaxCalls
    /\ \E config \in Configs :
        /\ fs' = create_run(fs, clock, config)
        /\ hret' = [Returned("create_run", strftime_seconds(clock), "none")
                    EXCEPT !.created = @ \cup {strftime_seconds(clock)}]
    /\ UNCHANGED clock
    /\ UNCHANGED nonHistoryVars

LogEpisode ==
    /\ hret.calls < MaxCalls
    /\ \E run_id \in RunIds, episode \in 1..MaxEpisodes :
        IF ~fs[run_id].exists
        THEN Raises("log_episode", run_id, "FileNotFoundError")
        ELSE /\ Len(fs[run_id].metrics.episodes) < MaxEpisodes
             /\ fs' = log_episode(fs, clock, run_id, episode, 0, 1, episode)
             /\ hret' = Returned("log_episode", run_id, "none")
             /\ UNCHANGED clock
    /\ UNCHANGED nonHistoryVars

LogDetailedEpisode ==
    /\ hret.calls < MaxCalls
    /\ \E run_id \in RunIds :
        IF ~fs[run_id].exists
        THEN Raises("log_detailed_episode", run_id, "FileNotFoundError")
        ELSE /\ Len(fs[run_id].detailed) < MaxDetailed
             /\ fs' = log_detailed_episode(fs, clock, run_id, 1, 0, 1, 1)
             /\ hret' = Returned("log_detailed_episode", run_id, "none")
             /\ UNCHANGED clock
    /\ UNCHANGED nonHistoryVars

LogEvaluation ==
    /\ hret.calls < MaxCalls
    /\ \E run_id \in RunIds :
        IF ~fs[run_id].exists
        THEN Raises("log_evaluation", run_id, "FileNotFoundError")
        ELSE /\ Len(fs[run_id].metrics.evaluations) < MaxEvaluations
             /\ fs' = log_evaluation(fs, clock, run_id, 10000, 0)
             /\ hret' = Returned("log_evaluation", run_id, "none")
             /\ UNCHANGED clock
    /\ UNCHANGED nonHistoryVars

\* save_checkpoint on a run that exists
SaveCheckpoint ==
    /\ hret.calls < MaxCalls
    /\ \E run_id \in RunIds, step \in CheckpointSteps :
        /\ fs[run_id].exists
        /\ Len(fs[run_id].metrics.checkpoints) < MaxCheckpoints
        /\ fs' = save_checkpoint(fs, clock, run_id, step)
        /\ hret' = [Returned("save_checkpoint", run_id, "none")
                    EXCEPT !.arg = step, !.step = step]
        /\ UNCHANGED clock
    /\ UNCHANGED nonHistoryVars

LoadCheckpoint ==
    /\ hret.calls < MaxCalls
    /\ \E run_id \in RunIds, step \in {0} \cup CheckpointSteps :
       \E found \in {load_checkpoint(fs, run_id, step)} :
        /\ hret' = [Returned("load_checkpoint", run_id, found.raised)
                    EXCEPT !.arg = step, !.step = found.step]
        /\ UNCHANGED <<clock, fs>>
    /\ UNCHANGED nonHistoryVars

MarkCompleted ==
    /\ hret.calls < MaxCalls
    /\ \E run_id \in RunIds, final_metrics \in FinalMetrics :
        IF ~fs[run_id].exists
        THEN Raises("mark_completed", run_id, "FileNotFoundError")
        ELSE /\ fs' = mark_completed(fs, clock, run_id, final_metrics)
             /\ hret' = Returned("mark_completed", run_id, "none")
             /\ UNCHANGED clock
    /\ UNCHANGED nonHistoryVars

ListRuns ==
    /\ hret.calls < MaxCalls
    /\ hret' = [Returned("list_runs", -1, "none") EXCEPT !.runs = list_runs(fs)]
    /\ UNCHANGED <<clock, fs>>
    /\ UNCHANGED nonHistoryVars

DeleteRun ==
    /\ hret.calls < MaxCalls
    /\ \E run_id \in RunIds, confirm \in BOOLEAN :
        IF ~confirm
        THEN Raises("delete_run", run_id, "ValueError")
        ELSE /\ fs' = delete_run(fs, run_id)
             /\ hret' = [Returned("delete_run", run_id, "none")
                         EXCEPT !.arg = 1]
             /\ UNCHANGED clock
    /\ UNCHANGED nonHistoryVars

(***************************************************************************)
(* One read-modify-write of a run's JSON file as the operating system sees *)
(* it: open(path, "r") and json.load, open(path, "w") (the file is empty), *)
(* json.dump (the text reaches the file buffer by buffer), close.  A file  *)
(* is the document being written and how many of its parts are on disk;    *)
(* it parses when all of them are.                                         *)
(***************************************************************************)
\* the calls that rewrite a file of the run
WriteOps == {"log_episode", "log_evaluation", "save_checkpoint",
             "mark_completed"}

\* the file a call rewrites
file_of(op) == IF op = "mark_completed" THEN "config" ELSE "metrics"

\* the parts json.dump writes: the braces and one part per record or key
json_size(file, run) ==
    IF file = "metrics"
    THEN 2 + Len(run.metrics.episodes) + Len(run.metrics.evaluations)
           + Len(run.metrics.checkpoints)
    ELSE 2 + 4 + (IF run.config.completed_at # -1 THEN 1 ELSE 0)
           + (IF run.config.final_metrics # "" THEN 1 ELSE 0)

\* the run directory after n episodes were logged
RECURSIVE logged(_, _)
logged(f, n) ==
    IF n = 0 THEN f ELSE log_episode(logged(f, n - 1), 0, 0, n, 0, 1, n)

\* the run directory after n checkpoints were saved
RECURSIVE saved(_, _)
saved(f, n) ==
    IF n = 0 THEN f ELSE save_checkpoint(saved(f, n - 1), 0, 0, n * 50000)

\* the run directories a write starts from
WrittenRuns ==
    {saved(logged(create_run([r \in RunIds |-> NoRun], 0, "lr_3e-4"), e),
           c)[0] :
        e \in 0..MaxEpisodes, c \in 0..MaxCheckpoints}

\* the document the call writes back, from the one it loaded
modified(op, run) ==
    LET f == [[r \in RunIds |-> NoRun] EXCEPT ![0] = run]
    IN  (CASE op = "log_episode" ->
                log_episode(f, 1, 0, Len(run.metrics.episodes) + 1, 0, 1, 1)
           [] op = "log_evaluation" -> log_evaluation(f, 1, 0, 10000, 0)
           [] op = "save_checkpoint" -> save_checkpoint(f, 1, 0, 150000)
           [] op = "mark_completed" -> mark_completed(f, 1, 0, "final"))[0]

\* a file whose text is complete on disk
WholeFile(file, run) ==
    [run |-> run, size |-> json_size(file, run),
     flushed |-> json_size(file, run)]

\* json.load of the file: the document, or JSONDecodeError on an empty or
\* cut text
json_load(disk) ==
    IF disk.flushed = disk.size
    THEN [raised |-> "none", run |-> disk.run]
    ELSE [raised |-> "JSONDecodeError", run |-> NoRun]

NotRead == [raised |-> "unread", run |-> NoRun]

IoIdle ==
    io = [op |-> "none", wpc |-> "idle", old |-> NoRun, loaded |-> NoRun,
          disk |-> WholeFile("metrics", NoRun), seen |-> NotRead]

\* a run with its files complete, a writer about to call op, a reader
IoInit ==
    \E op \in WriteOps, run \in WrittenRuns :
        io = [op |-> op, wpc |-> "start", old |-> run, loaded |-> NoRun,
              disk |-> WholeFile(file_of(op), run), seen |-> NotRead]

\* what a write and a read of one file do not touch
nonIoVars == <<envVars, rc, se, clock, fs, hret, cmd, sim, dl, pw>>

\* with open(path, "r") as f: json.load(f)
WriterLoad ==
    /\ io.wpc = "start"
    /\ io' = [io EXCEPT !.wpc = "loaded", !.loaded = json_load(io.disk).run]
    /\ UNCHANGED nonIoVars

\* with open(path, "w") as f: the file is truncated
WriterOpen ==
    /\ io.wpc = "loaded"
    /\ io' = [io EXCEPT
              !.wpc = "writing",
              !.disk = [WholeFile(file_of(io.op), modified(io.op, io.loaded))
                        EXCEPT !.flushed = 0]]
    /\ UNCHANGED nonIoVars

\* json.dump(..., f): a full buffer reaches the file before the text is
\* complete
WriterFlush ==
    /\ io.wpc = "writing"
    /\ \E k \in (io.disk.flushed + 1)..(io.disk.size - 1) :
        io' = [io EXCEPT !.disk.flushed = k]
    /\ UNCHANGED nonIoVars

\* the with block ends: the rest of the text is flushed, the file closed
WriterClose ==
    /\ io.wpc = "writing"
    /\ io' = [io EXCEPT !.wpc = "done", !.disk.flushed = io.disk.size]
    /\ UNCHANGED nonIoVars

\* the writer process is interrupted during the call
WriterInterrupted ==
    /\ io.wpc \in {"start", "loaded", "writing"}
    /\ io' = [io EXCEPT !.wpc = "interrupted"]
    /\ UNCHANGED nonIoVars

\* get_run_metrics / get_run_config by another process
ReaderLoad ==
    /\ io.wpc # "idle"
    /\ io' = [io EXCEPT !.seen = json_load(io.disk)]
    /\ UNCHANGED nonIoVars

(***************************************************************************)
(* train_policy.py: Command.handle, with PolicyWrapper.train and the        *)
(* TrainingCallback of policy.py.  Timesteps are counted in rollouts.      *)
(***************************************************************************)
\* --timesteps
TotalTimesteps == 1

\* --checkpoint-freq
CheckpointFreq == 1

\* invocations of the command in one behaviour
MaxInvocations == 2

\* the command is not running and has not run
TrainIdle ==
    cmd = [pc |-> "idle", outcome |-> "none", run_id |-> -1,
           resume |-> FALSE, episode_count |-> 0, num_timesteps |-> 0,
           started_status |-> "none", marked |-> FALSE, invocations |-> 0,
           periodic |-> [r \in RunIds |-> {}], interrupted |-> {}]

\* what the command's steps leave alone
nonTrainVars == <<envVars, rc, se, hret, io, sim, dl, pw>>

\* handle, lines 127-152: a new run with the default --lr;
\* PolicyWrapper.train creates the TrainingCallback (episode_count = 0)
StartNew ==
    /\ cmd.pc \in {"idle", "done"}
    /\ cmd.invocations < MaxInvocations
    /\ \E config \in {"lr_3e-4"}, run_id \in {strftime_seconds(clock)} :
        /\ fs' = create_run(fs, clock, config)
        /\ cmd' = [cmd EXCEPT
                   !.pc = "train", !.outcome = "running", !.run_id = run_id,
                   !.resume = FALSE, !.episode_count = 0,
                   !.num_timesteps = 0, !.started_status = "in_progress",
                   !.marked = FALSE, !.invocations = @ + 1,
                   !.periodic[run_id] = {},
                   !.interrupted = @ \ {run_id}]
    /\ UNCHANGED clock
    /\ UNCHANGED nonTrainVars

\* handle, lines 116-126: --resume run_id; get_run_config or load_checkpoint
\* raising FileNotFoundError ends the command with "Could not resume"
StartResume ==
    /\ cmd.pc \in {"idle", "done"}
    /\ cmd.invocations < MaxInvocations
    /\ \E run_id \in RunIds :
        cmd' = [cmd EXCEPT
                !.run_id = run_id, !.resume = TRUE, !.episode_count = 0,
                !.num_timesteps = 0, !.marked = FALSE,
                !.invocations = @ + 1,
                !.started_status = fs[run_id].config.status,
                !.pc = IF fs[run_id].exists
                          /\ load_checkpoint(fs, run_id, 0).raised = "none"
                       THEN "train" ELSE "done",
                !.outcome = IF fs[run_id].exists
                               /\ load_checkpoint(fs, run_id, 0).raised
                                  = "none"
                            THEN "running" ELSE "could_not_resume"]
    /\ UNCHANGED <<clock, fs>>
    /\ UNCHANGED nonTrainVars

\* one step of model.learn with its callbacks: TrainingCallback._on_step
\* logs an episode that ended (policy.py lines 45-82), with its detailed
\* record when the environment reports detailed statistics, and
\* CheckpointCallback saves ppo_guardian_<n>_steps.zip under
\* log_dir/checkpoints every checkpoint_freq steps (policy.py lines 211-216)
TrainStep ==
    /\ cmd.pc = "train"
    /\ cmd.num_timesteps < TotalTimesteps
    /\ \E episode_ended \in BOOLEAN, detailed_stats \in BOOLEAN,
          n \in {cmd.num_timesteps + 1} :
        /\ detailed_stats => episode_ended
        /\ fs' = IF ~episode_ended THEN fs
                 ELSE IF ~detailed_stats
                 THEN log_episode(fs, clock, cmd.run_id,
                                  cmd.episode_count + 1, 0, 1, n)
                 ELSE log_detailed_episode(
                          log_episode(fs, clock, cmd.run_id,
                                      cmd.episode_count + 1, 0, 1, n),
                          clock, cmd.run_id, cmd.episode_count + 1, 0, 1, n)
        /\ cmd' = [cmd EXCEPT
                   !.num_timesteps = n,
                   !.episode_count = IF episode_ended THEN @ + 1 ELSE @,
                   !.periodic[cmd.run_id] =
                       IF n % CheckpointFreq = 0 THEN @ \cup {n} ELSE @]
    /\ UNCHANGED clock
    /\ UNCHANGED nonTrainVars

\* policy.train returns; policy.save(final_path) (handle, lines 161-174)
TrainReturns ==
    /\ cmd.pc = "train"
    /\ cmd.num_timesteps = TotalTimesteps
    /\ cmd' = [cmd EXCEPT !.pc = "save_checkpoint"]
    /\ UNCHANGED <<clock, fs>>
    /\ UNCHANGED nonTrainVars

\* history.save_checkpoint(run_id, policy.model, timesteps) (line 175)
SaveFinalCheckpoint ==
    /\ cmd.pc = "save_checkpoint"
    /\ fs' = save_checkpoint(fs, clock, cmd.run_id, TotalTimesteps)
    /\ cmd' = [cmd EXCEPT !.pc = "mark_completed"]
    /\ UNCHANGED clock
    /\ UNCHANGED nonTrainVars

\* handle, lines 178-188: final_metrics is {} without episodes
MarkRunCompleted ==
    /\ cmd.pc = "mark_completed"
    /\ fs' = mark_completed(fs, clock, cmd.run_id,
                            IF fs[cmd.run_id].metrics.episodes = <<>>
                            THEN "" ELSE "final")
    /\ cmd' = [cmd EXCEPT !.pc = "report", !.marked = TRUE]
    /\ UNCHANGED clock
    /\ UNCHANGED nonTrainVars

\* handle, lines 190-196: the command reports and ends
Report ==
    /\ cmd.pc = "report"
    /\ cmd' = [cmd EXCEPT !.pc = "done", !.outcome = "completed"]
    /\ UNCHANGED <<clock, fs>>
    /\ UNCHANGED nonTrainVars

\* An except KeyboardInterrupt handler that marks the run completed
interrupted_marking_completed ==
    /\ cmd.pc \in {"train", "save_checkpoint", "mark_completed", "report"}
    /\ fs' = mark_completed(fs, clock, cmd.run_id, "")
    /\ cmd' = [cmd EXCEPT
               !.pc = "done", !.outcome = "interrupted",
               !.interrupted = IF cmd.pc = "train"
                               THEN @ \cup {cmd.run_id} ELSE @]
    /\ UNCHANGED clock
    /\ UNCHANGED nonTrainVars

\* KeyboardInterrupt inside the try block (handle, lines 198-200)
Interrupted ==
    /\ cmd.pc \in {"train", "save_checkpoint", "mark_completed", "report"}
    /\ cmd' = [cmd EXCEPT
               !.pc = "done", !.outcome = "interrupted",
               !.interrupted = IF cmd.pc = "train"
                               THEN @ \cup {cmd.run_id} ELSE @]
    /\ UNCHANGED <<clock, fs>>
    /\ UNCHANGED nonTrainVars

\* another exception inside the try block (handle, lines 202-204)
Failed ==
    /\ cmd.pc \in {"train", "save_checkpoint", "mark_completed"}
    /\ cmd' = [cmd EXCEPT !.pc = "done", !.outcome = "failed"]
    /\ UNCHANGED <<clock, fs>>
    /\ UNCHANGED nonTrainVars

(***************************************************************************)
(* data_loader.py: calls of DataLoader.simulate_trade_outcome              *)
(***************************************************************************)
\* the leverage argument, in hundredths
Leverages == {100, 200, 300}

Directions == {"long", "short"}

\* what a call that has not returned holds as its result
NoOutcome == simulate_trade_outcome(DataFrame("rise", 1), 0, "long", 100, 0)

\* no call yet
SimulateIdle ==
    sim = [op |-> "none", raised |-> "none", df |-> NoData, entry_idx |-> 0,
           direction |-> "long", leverage |-> 100, hold_periods |-> 0,
           out |-> NoOutcome]

\* the two series of the simulation tests
TestSeries == {DataFrame(k, TestRows) : k \in {"uptrend", "downtrend"}}

\* the arguments of a call about to be made: a series and
\* 0 <= entry_idx <= len(df)
SimulateInit ==
    \E df \in ShortSeries \cup TestSeries,
       entry_idx \in 0..Max(MaxShortLen, TestRows),
       direction \in Directions, leverage \in Leverages,
       hold \in (0..MaxHold) \cup {TestHold} :
        /\ entry_idx <= DataLen(df)
        /\ sim = [op |-> "none", raised |-> "none", df |-> df,
                  entry_idx |-> entry_idx, direction |-> direction,
                  leverage |-> leverage, hold_periods |-> hold,
                  out |-> NoOutcome]

\* simulate_trade_outcome(df, entry_idx, direction, leverage, hold_periods),
\* lines 212-280
SimulateTradeOutcome ==
    /\ sim.op = "none"
    /\ sim' = [sim EXCEPT
               !.op = "simulate_trade_outcome",
               !.raised = IF simulate_raises(sim.df, sim.entry_idx)
                          THEN "IndexError" ELSE "none",
               !.out = IF simulate_raises(sim.df, sim.entry_idx) THEN @
                       ELSE simulate_trade_outcome(sim.df, sim.entry_idx,
                                sim.direction, sim.leverage,
                                sim.hold_periods)]
    /\ UNCHANGED <<envVars, rc, se, clock, fs, hret, io, cmd, dl, pw>>

(***************************************************************************)
(* data_loader.py: split_data, prepare_training_data and the scaler.       *)
(* A processed series is a sequence of rows, each with its timestamp and   *)
(* one feature column x; train_ratio is in tenths.                          *)
(***************************************************************************)
\* rows of the longest processed series
MaxRows == 3

\* values of the feature column
FeatureValues == {1, 4}

\* train_ratio, in tenths: 0.0, 0.5, the default 0.8, 1.0
TrainRatios == {0, 5, 8, 10}

\* the processed series with the feature values xs, in timestamp order
Processed(xs) == [i \in 1..Len(xs) |-> [timestamp |-> i, x |-> xs[i]]]

ProcessedSeries ==
    {Processed(xs) : xs \in UNION {[1..n -> FeatureValues] : n \in 0..MaxRows}}

\* A split that puts the last train row into the test partition as well
split_data_overlapping(df, train_ratio) ==
    LET split_idx == (Len(df) * train_ratio) \div 10
    IN  [train |-> SubSeq(df, 1, split_idx),
         test |-> SubSeq(df, Max(split_idx, 1), Len(df))]

\* split_data, lines 167-171: split_idx = int(len(df) * train_ratio),
\* df.iloc[:split_idx] and df.iloc[split_idx:]
split_data(df, train_ratio) ==
    LET split_idx == (Len(df) * train_ratio) \div 10
    IN  [train |-> SubSeq(df, 1, split_idx),
         test |-> SubSeq(df, split_idx + 1, Len(df))]

RECURSIVE column_sum(_)
column_sum(df) == IF df = <<>> THEN 0 ELSE df[1].x + column_sum(Tail(df))

RECURSIVE column_sum_of_squares(_)
column_sum_of_squares(df) ==
    IF df = <<>> THEN 0
    ELSE df[1].x * df[1].x + column_sum_of_squares(Tail(df))

\* StandardScaler before fit
NotFitted == [n |-> 0, sum |-> 0, sum_of_squares |-> 0]

\* StandardScaler.fit: the mean and the variance of the column, held as the
\* number of rows, the sum and the sum of squares
scaler_fit(df) ==
    [n |-> Len(df), sum |-> column_sum(df),
     sum_of_squares |-> column_sum_of_squares(df)]

\* StandardScaler.transform: (x - mean) / std, held as the pair
\* <<n * (x - mean), n * n * variance>>
scaler_transform(scaler, df) ==
    [i \in 1..Len(df) |->
        [df[i] EXCEPT !.x =
            <<scaler.n * df[i].x - scaler.sum,
              scaler.n * scaler.sum_of_squares - scaler.sum * scaler.sum>>]]

\* what a DataLoader holds before a call
NoPrepared ==
    [raised |-> "none", scaler |-> NotFitted, train |-> <<>>, test |-> <<>>]

\* A pipeline that fits the scaler on the whole series
prepare_fitting_on_all(df, train_ratio) ==
    LET parts == split_data(df, train_ratio)
        scaler == scaler_fit(df)
    IN  IF parts.train = <<>> \/ parts.test = <<>>
        THEN [NoPrepared EXCEPT !.raised = "ValueError"]
        ELSE [raised |-> "none", scaler |-> scaler,
              train |-> scaler_transform(scaler, parts.train),
              test |-> scaler_transform(scaler, parts.test)]

\* prepare_training_data, lines 186-198, on the processed series: split,
\* scaler.fit(train), scaler.transform of both partitions; the scaler
\* rejects a partition without rows with ValueError
prepare_training_data(df, train_ratio) ==
    LET parts == split_data(df, train_ratio)
        scaler == scaler_fit(parts.train)
    IN  IF parts.train = <<>> \/ parts.test = <<>>
        THEN [NoPrepared EXCEPT !.raised = "ValueError"]
        ELSE [raised |-> "none", scaler |-> scaler,
              train |-> scaler_transform(scaler, parts.train),
              test |-> scaler_transform(scaler, parts.test)]

\* no series loaded
LoaderIdle ==
    dl = [op |-> "none", train_ratio |-> 8,
          a |-> [df |-> <<>>, out |-> NoPrepared],
          b |-> [df |-> <<>>, out |-> NoPrepared]]

\* two loaders with their processed series and the train_ratio of the call
LoaderInit ==
    \E df_a \in ProcessedSeries, df_b \in ProcessedSeries,
       train_ratio \in TrainRatios :
        dl = [op |-> "none", train_ratio |-> train_ratio,
              a |-> [df |-> df_a, out |-> NoPrepared],
              b |-> [df |-> df_b, out |-> NoPrepared]]

\* split_data(train_ratio=...) on both loaders
SplitData ==
    /\ dl.op = "none"
    /\ dl' = [dl EXCEPT
              !.op = "split_data",
              !.a.out = [NoPrepared EXCEPT
                         !.train = split_data(dl.a.df, dl.train_ratio).train,
                         !.test = split_data(dl.a.df, dl.train_ratio).test],
              !.b.out = [NoPrepared EXCEPT
                         !.train = split_data(dl.b.df, dl.train_ratio).train,
                         !.test = split_data(dl.b.df, dl.train_ratio).test]]
    /\ UNCHANGED <<envVars, rc, se, clock, fs, hret, io, cmd, sim, pw>>

\* prepare_training_data(train_ratio=...) on both loaders
PrepareTrainingData ==
    /\ dl.op = "none"
    /\ dl' = [dl EXCEPT
              !.op = "prepare_training_data",
              !.a.out = prepare_training_data(dl.a.df, dl.train_ratio),
              !.b.out = prepare_training_data(dl.b.df, dl.train_ratio)]
    /\ UNCHANGED <<envVars, rc, se, clock, fs, hret, io, cmd, sim, pw>>

(***************************************************************************)
(* policy.py: PolicyWrapper.evaluate on the environment                    *)
(***************************************************************************)
\* largest n_episodes
MaxEvalEpisodes == 2

\* action_counts = {0: 0, 1: 0, 2: 0} (line 313)
NoActionCounts == [a \in Actions |-> 0]

\* Counts that leave out the rejections
action_counts_without_reject(counts, action) ==
    IF action = ACTION_REJECT THEN counts
    ELSE [counts EXCEPT ![action] = @ + 1]

\* action_counts[action] = action_counts.get(action, 0) + 1 (line 324)
evaluate_action_counts(counts, action) == [counts EXCEPT ![action] = @ + 1]

\* no evaluate() or train() running
PolicyIdle ==
    pw = [mode |-> "none", pc |-> "idle", raised |-> "none",
          n_episodes |-> 0, resets |-> 0, episode_length |-> 0,
          episode_lengths |-> <<>>, action_counts |-> NoActionCounts,
          monitored |-> FALSE, run_id |-> -1, episode_count |-> 0,
          num_timesteps |-> 0, completed |-> 0, done |-> FALSE]

\* evaluate(env, n_episodes) is called (lines 311-315); without episodes
\* np.min of the empty reward list raises ValueError (line 338)
EvaluateCall ==
    /\ pw.mode = "none"
    /\ \E n_episodes \in 0..MaxEvalEpisodes :
        pw' = [pw EXCEPT
               !.mode = "evaluate", !.n_episodes = n_episodes,
               !.pc = IF n_episodes = 0 THEN "raised" ELSE "reset",
               !.raised = IF n_episodes = 0 THEN "ValueError" ELSE "none"]
    /\ UNCHANGED <<envVars, rc, se, otherVars>>

\* obs, _ = env.reset() at the head of an episode (lines 316-319)
EvaluateReset ==
    /\ pw.mode = "evaluate"
    /\ pw.pc = "reset"
    /\ \E idx \in random_start_indices(data, max_steps, hold_periods) :
        ResetTo(idx, "random")
    /\ pw' = [pw EXCEPT !.pc = "step", !.episode_length = 0,
                        !.resets = @ + 1]

\* one turn of the while loop (lines 321-332): predict, count the action,
\* env.step, and at done the episode is appended
EvaluateStep ==
    /\ pw.mode = "evaluate"
    /\ pw.pc = "step"
    /\ \E action \in Actions :
        \/ /\ StepReturns(action)
           /\ \E done \in {ret'.terminated \/ ret'.truncated} :
               pw' = [pw EXCEPT
                      !.action_counts = evaluate_action_counts(@, action),
                      !.episode_length = @ + 1,
                      !.episode_lengths =
                          IF done THEN Append(@, pw.episode_length + 1)
                          ELSE @,
                      !.pc = IF ~done THEN "step"
                             ELSE IF Len(pw.episode_lengths) + 1
                                     < pw.n_episodes
                             THEN "reset" ELSE "return"]
        \/ /\ StepRaises(action)
           /\ pw' = [pw EXCEPT
                     !.action_counts = evaluate_action_counts(@, action),
                     !.pc = "raised", !.raised = "IndexError"]

\* the result is returned (lines 334-346)
EvaluateReturn ==
    /\ pw.mode = "evaluate"
    /\ pw.pc = "return"
    /\ pw' = [pw EXCEPT !.pc = "returned"]
    /\ UNCHANGED <<envVars, rc, se, otherVars>>

(***************************************************************************)
(* policy.py: PolicyWrapper.train.  model.learn steps the environment      *)
(* through the DummyVecEnv of line 145, which resets it inside the step    *)
(* that ends an episode, and calls TrainingCallback._on_step after every   *)
(* step.                                                                   *)
(***************************************************************************)
\* steps of model.learn explored
RolloutSteps == 3

\* train(history_manager, run_id) on a run created at instant 0
\* (train_policy.py lines 140, 162-170); the environment's info dict holds
\* no "episode" key (environment.py lines 399-410), pw.monitored says
\* whether a wrapper of the environment adds one
TrainCall ==
    /\ clock = 0
    /\ hret = NoHistoryReturn
    /\ fs = create_run([r \in RunIds |-> NoRun], 0, "lr_3e-4")
    /\ \E monitored \in BOOLEAN :
        pw = [mode |-> "train", pc |-> "reset", raised |-> "none",
              n_episodes |-> 0, resets |-> 0, episode_length |-> 0,
              episode_lengths |-> <<>>, action_counts |-> NoActionCounts,
              monitored |-> monitored, run_id |-> strftime_seconds(0),
              episode_count |-> 0, num_timesteps |-> 0, completed |-> 0,
              done |-> FALSE]

\* model.learn resets the environment before the first step (line 220)
LearnReset ==
    /\ pw.mode = "train"
    /\ pw.pc = "reset"
    /\ \E idx \in random_start_indices(data, max_steps, hold_periods) :
        ResetTo(idx, "random")
    /\ pw' = [pw EXCEPT !.pc = "step", !.resets = @ + 1]

\* the vectorized environment steps the environment (lines 145, 220)
VecEnvStep ==
    /\ pw.mode = "train"
    /\ pw.pc = "step"
    /\ pw.num_timesteps < RolloutSteps
    /\ \E action \in Actions :
        \/ /\ StepReturns(action)
           /\ \E done \in {ret'.terminated \/ ret'.truncated} :
               pw' = [pw EXCEPT
                      !.num_timesteps = @ + 1,
                      !.episode_length = @ + 1,
                      !.done = done,
                      !.completed = IF done THEN @ + 1 ELSE @,
                      !.pc = IF done THEN "auto_reset" ELSE "callback"]
        \/ /\ StepRaises(action)
           /\ pw' = [pw EXCEPT !.pc = "raised", !.raised = "IndexError"]

\* the vectorized environment resets the environment whose episode ended,
\* before the step returns to model.learn (line 145)
VecEnvReset ==
    /\ pw.mode = "train"
    /\ pw.pc = "auto_reset"
    /\ \E idx \in random_start_indices(data, max_steps, hold_periods) :
        ResetTo(idx, "random")
    /\ pw' = [pw EXCEPT !.pc = "callback", !.resets = @ + 1]

\* TrainingCallback._on_step (lines 44-85) after the step
OnStep ==
    /\ pw.mode = "train"
    /\ pw.pc = "callback"
    /\ \E logs \in {pw.done /\ pw.monitored},
          episode \in {pw.episode_count + 1} :
        /\ fs' = IF ~logs THEN fs
                 ELSE IF get_detailed_episode_stats.empty
                 THEN log_episode(fs, clock, pw.run_id, episode, 0,
                                  pw.episode_length, pw.num_timesteps)
                 ELSE log_detailed_episode(
                          log_episode(fs, clock, pw.run_id, episode, 0,
                                      pw.episode_length, pw.num_timesteps),
                          clock, pw.run_id, episode, 0, pw.episode_length,
                          pw.num_timesteps)
        /\ pw' = [pw EXCEPT
                  !.pc = "step",
                  !.episode_count = IF logs THEN episode ELSE @,
                  !.episode_length = IF pw.done THEN 0 ELSE @,
                  !.done = FALSE]
    /\ UNCHANGED <<envVars, rc, se, clock, hret, io, cmd, sim, dl>>

\* the components that have no part in a specification stay as constructed
OthersIdle ==
    /\ HistoryIdle /\ IoIdle /\ TrainIdle /\ SimulateIdle /\ LoaderIdle
    /\ PolicyIdle

Init == EnvInit(EnvChoices) /\ RewardIdle /\ EncodeIdle /\ OthersIdle

Next == Reset \/ ResetAt \/ Step

Spec == Init /\ [][Next]_vars

\* the same environment, constructed also on the long series
InitBlown ==
    EnvInit(EnvChoices \cup LongChoices) /\ RewardIdle /\ EncodeIdle
    /\ OthersIdle

SpecBlown == InitBlown /\ [][Next]_vars

\* the reward calculator alone
InitReward == EnvIdle /\ RewardInit /\ EncodeIdle /\ OthersIdle

NextReward == RewardCall /\ UNCHANGED <<envVars, se, otherVars, pw>>

SpecReward == InitReward /\ [][NextReward]_vars

\* the state encoder alone
InitEncode == EnvIdle /\ RewardIdle /\ EncodeInit /\ OthersIdle

NextEncode == EncodeCall /\ UNCHANGED <<envVars, rc, otherVars, pw>>

SpecEncode == InitEncode /\ [][NextEncode]_vars

\* the training history manager alone, on an empty base_dir
InitHistory ==
    /\ EnvIdle /\ RewardIdle /\ EncodeIdle /\ HistoryIdle /\ IoIdle
    /\ TrainIdle /\ SimulateIdle /\ LoaderIdle /\ PolicyIdle

NextHistory ==
    \/ Tick
    \/ CreateRun
    \/ LogEpisode
    \/ LogDetailedEpisode
    \/ LogEvaluation
    \/ SaveCheckpoint
    \/ LoadCheckpoint
    \/ MarkCompleted
    \/ ListRuns
    \/ DeleteRun

SpecHistory == InitHistory /\ [][NextHistory]_vars

\* one writer rewriting a file of a run, and a reader of that file
InitWrite ==
    /\ EnvIdle /\ RewardIdle /\ EncodeIdle /\ HistoryIdle /\ IoInit
    /\ TrainIdle /\ SimulateIdle /\ LoaderIdle /\ PolicyIdle

NextWrite ==
    \/ WriterLoad
    \/ WriterOpen
    \/ WriterFlush
    \/ WriterClose
    \/ WriterInterrupted
    \/ ReaderLoad

SpecWrite == InitWrite /\ [][NextWrite]_vars

\* time passing before an invocation of the command; the timestamps one
\* invocation writes fall within one tick
TickBetweenInvocations ==
    /\ cmd.pc \in {"idle", "done"}
    /\ cmd.invocations < MaxInvocations
    /\ Tick

\* the train_policy command, invoked again and again on one base_dir
InitTrain == InitHistory

NextTrain ==
    \/ TickBetweenInvocations
    \/ StartNew
    \/ StartResume
    \/ TrainStep
    \/ TrainReturns
    \/ SaveFinalCheckpoint
    \/ MarkRunCompleted
    \/ Report
    \/ Interrupted
    \/ Failed

SpecTrain == InitTrain /\ [][NextTrain]_vars

\* one call of simulate_trade_outcome on every argument
InitSimulate ==
    /\ EnvIdle /\ RewardIdle /\ EncodeIdle /\ HistoryIdle /\ IoIdle
    /\ TrainIdle /\ SimulateInit /\ LoaderIdle /\ PolicyIdle

NextSimulate == SimulateTradeOutcome

SpecSimulate == InitSimulate /\ [][NextSimulate]_vars

\* one call of the DataLoader pipeline on every pair of processed series
InitLoader ==
    /\ EnvIdle /\ RewardIdle /\ EncodeIdle /\ HistoryIdle /\ IoIdle
    /\ TrainIdle /\ SimulateIdle /\ LoaderInit /\ PolicyIdle

NextLoader ==
    \/ SplitData
    \/ PrepareTrainingData

SpecLoader == InitLoader /\ [][NextLoader]_vars

\* evaluate() on every environment
InitEvaluate == Init

NextEvaluate ==
    \/ EvaluateCall
    \/ EvaluateReset
    \/ EvaluateStep
    \/ EvaluateReturn

SpecEvaluate == InitEvaluate /\ [][NextEvaluate]_vars

\* train() on every environment, logging to one run
InitRollout ==
    /\ EnvInit(EnvChoices) /\ RewardIdle /\ EncodeIdle /\ IoIdle /\ TrainIdle
    /\ SimulateIdle /\ LoaderIdle /\ TrainCall

NextRollout ==
    \/ LearnReset
    \/ VecEnvStep
    \/ VecEnvReset
    \/ OnStep

SpecRollout == InitRollout /\ [][NextRollout]_vars

(***************************************************************************)
(* Properties                                                              *)
(***************************************************************************)
RewardDone == rc.pc = "done"

ApprovalActions == {ACTION_APPROVE_WARNING, ACTION_APPROVE}

\* C1: the components of get_reward_breakdown (all entries but 'total') sum
\* to, and its 'total' equals, what calculate_reward returns for the same
\* action, outcome and portfolio_health.
C1_BreakdownSumsToReward ==
    RewardDone =>
        /\ ComponentSum(rc.breakdown) = rc.reward
        /\ rc.breakdown.total = rc.reward

\* C2: every element of the vector encode returns lies within the bound of
\* its position in get_observation_space_bounds.
C2_EncodeWithinBounds ==
    se.pc = "done" =>
        /\ Len(se.state) = TOTAL_FEATURES
        /\ \A i \in 1..TOTAL_FEATURES :
              /\ observation_low[i] <= se.state[i]
              /\ se.state[i] <= observation_high[i]

\* C3: for an approval and a fixed portfolio_health, the reward of a
\* liquidated outcome is never greater than the reward of any outcome that
\* is not liquidated.
C3_LiquidationIsWorst ==
    (RewardDone /\ rc.action \in ApprovalActions
     /\ rc.outcome.was_liquidated) =>
        \A o \in Outcomes :
            ~o.was_liquidated =>
                rc.reward <= calculate_reward(rc.action, o,
                                              rc.portfolio_health)

\* C4: an approval of a liquidated outcome is rewarded at most
\* liquidation_penalty + health_bonus, whatever the rest of the outcome and
\* the portfolio_health.
C4_LiquidationCeiling ==
    (RewardDone /\ rc.action \in ApprovalActions
     /\ rc.outcome.was_liquidated) =>
        rc.reward <= liquidation_penalty + health_bonus

\* C4's case: an approved liquidation rewarded exactly the ceiling
C4_Witness ==
    /\ RewardDone
    /\ rc.action = ACTION_APPROVE
    /\ rc.outcome.was_liquidated
    /\ rc.outcome.hit_take_profit
    /\ rc.reward = liquidation_penalty + health_bonus

\* C5: rejecting an outcome that loses (pnl < 0) or is liquidated is rewarded
\* strictly above zero for every portfolio_health: at least
\* good_rejection_reward, and 0.5 more when the outcome is liquidated.
C5_GoodRejectionPositive ==
    (RewardDone /\ rc.action = ACTION_REJECT
     /\ (rc.outcome.pnl < 0 \/ rc.outcome.was_liquidated)) =>
        /\ rc.reward > 0
        /\ rc.reward >= good_rejection_reward
        /\ rc.outcome.was_liquidated =>
              rc.reward >= good_rejection_reward + 5000
        /\ ~rc.outcome.was_liquidated =>
              rc.reward <= good_rejection_reward + health_bonus

\* C5's case: a rejected liquidation with pnl >= 0 and an unhealthy portfolio
C5_Witness ==
    /\ RewardDone
    /\ rc.action = ACTION_REJECT
    /\ rc.outcome.was_liquidated
    /\ rc.outcome.pnl > 0
    /\ rc.portfolio_health < health_threshold
    /\ rc.reward = good_rejection_reward + 5000

\* C6: for pnl > 0, approve_with_warning is rewarded strictly
\* below approve and strictly above reject, for the same outcome and health.
C6_WarningBetweenRejectAndApprove ==
    (RewardDone /\ rc.action = ACTION_APPROVE_WARNING /\ rc.outcome.pnl > 0) =>
        /\ rc.reward < calculate_reward(ACTION_APPROVE, rc.outcome,
                                        rc.portfolio_health)
        /\ rc.reward > calculate_reward(ACTION_REJECT, rc.outcome,
                                        rc.portfolio_health)

\* a step of an episode that was not over returned normally
StepReturned == ret.op = "step" /\ ret.raised = "none"

InEpisode == hist.extra = 0

\* the data has run out of room for the next hold-period lookahead
DataExhausted ==
    ~data.is_none /\ current_idx >= DataLen(data) - hold_periods

\* C7: step returns terminated = True exactly when, after that step's
\* balance update, balance <= 0.1 * initial_balance.
C7_TerminatedIffBlown ==
    StepReturned => (ret.terminated <=> balance * 10 <= initial_balance)

\* C7's case: a step that blew the account, after steps that did not
C7_Witness ==
    /\ StepReturned
    /\ InEpisode
    /\ ret.terminated
    /\ balance * 10 <= initial_balance
    /\ portfolio_tracking.max_balance = initial_balance
    /\ current_step > 1

\* C8 as claimed: in an episode, step returns truncated = True exactly on
\* the step after which current_step has reached max_steps or
\* current_idx >= len(data) - hold_periods.
C8_TruncatedAtLimit ==
    (StepReturned /\ InEpisode) =>
        (ret.truncated <=> (current_step >= max_steps \/ DataExhausted))

\* C8 as amended: in an episode, step returns truncated = True exactly on
\* the step after which current_step has reached max_steps or
\* current_idx >= len(data) - hold_periods, unless that step returns
\* terminated = True (then truncated is False); an episode of max_steps = 10
\* approvals without data is truncated on its tenth step.
C8_TruncatedUnlessTerminated ==
    (StepReturned /\ InEpisode) =>
        /\ ret.truncated <=>
              (~ret.terminated
               /\ (current_step >= max_steps \/ DataExhausted))
        /\ (data.is_none /\ current_step = max_steps) => ret.truncated
        /\ (data.is_none /\ current_step < max_steps) => ~ret.truncated

\* C8's case: max_steps = 10, APPROVE at every step, the tenth step returns
\* truncated = True and num_trades is 10
C8_Witness ==
    /\ StepReturned
    /\ InEpisode
    /\ max_steps = 10
    /\ current_step = 10
    /\ action_counts.approve = 10
    /\ episode_trades.len = 10
    /\ ret.truncated
    /\ ~ret.terminated

\* the largest start index reset() can choose, when it has a choice
LargestStart == DataLen(data) - max_steps - hold_periods - 2

\* C9: on a series of at least one row, after reset() without options,
\* every step up to and including the first that returns terminated or
\* truncated reads only rows of index < len(data), and raises no IndexError.
C9_RowsWithinData ==
    (hist.started = "random" /\ ~data.is_none /\ DataLen(data) >= 1
     /\ ret.op = "step" /\ InEpisode) =>
        /\ ret.raised = "none"
        /\ \A i \in ret.rows_read : 0 <= i /\ i < DataLen(data)

\* C9's case: the episode started at the largest index reset() can choose,
\* and its steps read up to the last row of the hold window
C9_Witness ==
    /\ hist.started = "random"
    /\ ~data.is_none
    /\ LargestStart > 0
    /\ current_idx - current_step = LargestStart
    /\ StepReturned
    /\ InEpisode
    /\ current_step = max_steps
    /\ current_idx - 1 + hold_periods \in ret.rows_read

\* C10: once step has returned terminated or truncated, a further step
\* without a reset fails with an error and changes nothing of the episode.
C10_StepAfterOverFails ==
    [][(hist.episode_over /\ ret'.op = "step") =>
          /\ ret'.raised # "none"
          /\ UNCHANGED <<current_step, current_idx, balance, portfolio_state,
                         episode_trades, action_counts, trade_outcomes,
                         portfolio_tracking, reward_breakdown>>]_vars

\* C11: after any sequence of steps, reset() sets current_step to 0, the
\* balance to initial_balance, the portfolio snapshot and every per-episode
\* statistic to their initial values, so that get_episode_stats() and
\* get_detailed_episode_stats() return {} until the next step.
C11_ResetClearsEpisode ==
    ret.op = "reset" =>
        /\ current_step = 0
        /\ balance = initial_balance
        /\ portfolio_state = get_initial_portfolio_state
        /\ portfolio_state.health_score = 1000
        /\ portfolio_state.account_value = initial_balance
        /\ action_counts = InitialActionCounts
        /\ trade_outcomes = InitialTradeOutcomes
        /\ portfolio_tracking = InitialPortfolioTracking
        /\ reward_breakdown = InitialRewardBreakdown
        /\ episode_trades = InitialEpisodeTrades
        /\ get_episode_stats.empty
        /\ get_detailed_episode_stats.empty

\* C11's case: a reset of an environment whose episode had taken steps
C11_Witness ==
    /\ ret.op = "reset"
    /\ hist.after_steps
    /\ get_episode_stats.empty
    /\ action_counts = InitialActionCounts

\* a call on the manager returns normally in this step
ManagerCall(op) ==
    /\ hret'.calls = hret.calls + 1
    /\ hret'.op = op
    /\ hret'.raised = "none"

\* the list now is the list before with one record more at its end
AppendedOne(before, now) ==
    /\ Len(now) = Len(before) + 1
    /\ SubSeq(now, 1, Len(before)) = before

\* C12: any two create_run calls on one manager return different run_ids
\* (and so the second never overwrites the records of the first), also
\* within one clock second.
C12_CreateRunFresh ==
    hret.op = "create_run" => hret.run_id \notin hret.created_before

\* C13: load_checkpoint(run_id) without step returns the checkpoint of the
\* numerically greatest step saved, and fails with a not-found error when
\* the run has no checkpoint.
C13_LoadsGreatestStep ==
    (hret.op = "load_checkpoint" /\ hret.arg = 0) =>
        IF fs[hret.run_id].files = {}
        THEN hret.raised = "FileNotFoundError"
        ELSE /\ hret.raised = "none"
             /\ hret.step = SetMax(fs[hret.run_id].files)

\* C14: a reader of a run's metrics or config, at any moment of a write by
\* log_episode, log_evaluation, save_checkpoint or mark_completed (or after
\* the writer was interrupted in it), gets the complete record from before
\* the write or the complete record after it, never an empty or a partly
\* written file.
C14_ReaderSeesWholeRecord ==
    io.seen # NotRead =>
        /\ io.seen.raised = "none"
        /\ io.seen.run \in {io.old, modified(io.op, io.old)}

\* C18: log_episode, log_evaluation and save_checkpoint each append exactly
\* one record to the end of their own list of the run's metrics and leave
\* every record written before, of all three lists, and the run's config
\* unchanged and in order; log_detailed_episode appends one line to the
\* detailed log and changes neither metrics nor config.
C18_AppendOnly ==
    [][\A r \in RunIds :
          /\ (ManagerCall("log_episode") /\ hret'.run_id = r) =>
                /\ AppendedOne(fs[r].metrics.episodes,
                               fs'[r].metrics.episodes)
                /\ fs'[r].metrics.evaluations = fs[r].metrics.evaluations
                /\ fs'[r].metrics.checkpoints = fs[r].metrics.checkpoints
                /\ fs'[r].config = fs[r].config
          /\ (ManagerCall("log_evaluation") /\ hret'.run_id = r) =>
                /\ AppendedOne(fs[r].metrics.evaluations,
                               fs'[r].metrics.evaluations)
                /\ fs'[r].metrics.episodes = fs[r].metrics.episodes
                /\ fs'[r].metrics.checkpoints = fs[r].metrics.checkpoints
                /\ fs'[r].config = fs[r].config
          /\ (ManagerCall("save_checkpoint") /\ hret'.run_id = r) =>
                /\ AppendedOne(fs[r].metrics.checkpoints,
                               fs'[r].metrics.checkpoints)
                /\ fs'[r].metrics.episodes = fs[r].metrics.episodes
                /\ fs'[r].metrics.evaluations = fs[r].metrics.evaluations
                /\ fs'[r].config = fs[r].config
          /\ (ManagerCall("log_detailed_episode") /\ hret'.run_id = r) =>
                /\ AppendedOne(fs[r].detailed, fs'[r].detailed)
                /\ fs'[r].metrics = fs[r].metrics
                /\ fs'[r].config = fs[r].config]_vars

\* C18's case: an episode logged into metrics that already held an episode
\* and a checkpoint
C18_Witness ==
    /\ hret.op = "log_episode"
    /\ hret.raised = "none"
    /\ Len(fs[hret.run_id].metrics.episodes) = 2
    /\ Len(fs[hret.run_id].metrics.checkpoints) >= 1

\* C19: delete_run without confirm=True raises an error and leaves the run
\* (directory, config, metrics, checkpoints) unchanged and listed by
\* list_runs; delete_run with confirm=True removes the run from list_runs
\* and leaves the other runs untouched.
C19_DeleteNeedsConfirm ==
    [][(hret'.calls = hret.calls + 1 /\ hret'.op = "delete_run") =>
          IF hret'.arg # 1
          THEN /\ hret'.raised = "ValueError"
               /\ fs' = fs
               /\ list_runs(fs') = list_runs(fs)
          ELSE /\ hret'.raised = "none"
               /\ hret'.run_id \notin list_runs(fs')
               /\ fs'[hret'.run_id] = NoRun
               /\ \A q \in RunIds \ {hret'.run_id} : fs'[q] = fs[q]]_vars

\* C19's case: a run with a checkpoint, deleted with confirm=True while
\* another run exists
C19_Witness ==
    /\ hret.op = "delete_run"
    /\ hret.arg = 1
    /\ hret.raised = "none"
    /\ ~fs[hret.run_id].exists
    /\ \E q \in RunIds : fs[q].exists

\* the episode numbers of a list of episode records increase strictly
StrictlyIncreasing(episodes) ==
    \A i \in 1..(Len(episodes) - 1) :
        episodes[i].episode < episodes[i + 1].episode

C16_ResumeFindsPeriodicCheckpoint ==
    (/\ cmd.resume
     /\ cmd.run_id \in cmd.interrupted
     /\ cmd.periodic[cmd.run_id] # {})
        => cmd.outcome # "could_not_resume"

WindowEnd == Min(sim.entry_idx + sim.hold_periods, DataLen(sim.df) - 1)

\* a stop-loss, take-profit or liquidation trigger was detected
Triggered ==
    sim.out.was_stopped \/ sim.out.hit_take_profit \/ sim.out.was_liquidated

\* C20: simulate_trade_outcome returns
\* pnl = leverage * (close[exit] - close[entry]) / close[entry] for a long
\* trade and the negation for a short one, with exit the end of the hold
\* window (clamped to the last row), also when was_stopped, hit_take_profit
\* or was_liquidated is set: a trigger never ends the trade early.
C20_ExitAtWindowEnd ==
    (sim.op = "simulate_trade_outcome" /\ sim.raised = "none")
        => LET entry == iloc(sim.df, sim.entry_idx).close
               exit == iloc(sim.df, WindowEnd).close
               move == IF sim.direction = "long" THEN exit - entry
                       ELSE entry - exit
           IN  /\ sim.out.hold_periods = WindowEnd - sim.entry_idx
               /\ sim.out.entry_price = entry
               /\ sim.out.exit_price = exit
               /\ sim.out.pnl = (move * sim.leverage * 10) \div entry

\* C20's case: a long trade whose stop-loss price is reached in the row
\* after the entry, held to the end of a longer window that the end of the
\* series cuts, with a price there that differs from the row of the trigger
C20_Witness ==
    /\ sim.op = "simulate_trade_outcome"
    /\ sim.raised = "none"
    /\ sim.direction = "long"
    /\ sim.out.was_stopped
    /\ Triggered
    /\ sim.out.hold_periods >= 2
    /\ sim.entry_idx + sim.hold_periods > WindowEnd
    /\ iloc(sim.df, sim.entry_idx + 1).low * sim.leverage
           <= sim.out.entry_price * (sim.leverage - 5)
    /\ sim.out.exit_price # iloc(sim.df, sim.entry_idx + 1).close

\* the close of a series rises (falls) from every row to the next
StrictlyIncreasingClose(df) ==
    \A i \in 0..(DataLen(df) - 2) : iloc(df, i).close < iloc(df, i + 1).close

StrictlyDecreasingClose(df) ==
    \A i \in 0..(DataLen(df) - 2) : iloc(df, i).close > iloc(df, i + 1).close

\* C21: on a series whose close is strictly increasing, a long trade entered
\* at an index with a later row, with hold_periods >= 1 and leverage > 0,
\* has pnl > 0; on a strictly decreasing series a short trade has pnl > 0.
C21_TrendTradeProfits ==
    (/\ sim.op = "simulate_trade_outcome"
     /\ sim.raised = "none"
     /\ sim.entry_idx + 1 < DataLen(sim.df)
     /\ sim.hold_periods >= 1
     /\ sim.leverage > 0
     /\ \/ sim.direction = "long" /\ StrictlyIncreasingClose(sim.df)
        \/ sim.direction = "short" /\ StrictlyDecreasingClose(sim.df))
        => sim.out.pnl > 0

\* C21's case: the short trade of the downtrend test, entered at row 0 with
\* leverage 1.0 and held 10 rows
C21_Witness ==
    /\ sim.op = "simulate_trade_outcome"
    /\ sim.raised = "none"
    /\ sim.df = DataFrame("downtrend", TestRows)
    /\ StrictlyDecreasingClose(sim.df)
    /\ sim.entry_idx = 0
    /\ sim.direction = "short"
    /\ sim.leverage = 100
    /\ sim.hold_periods = TestHold
    /\ sim.out.hold_periods = TestHold
    /\ sim.out.pnl > 0

\* C22: for every price series, entry index, direction and leverage >= 1
\* the max_drawdown simulate_trade_outcome returns is >= 0.
C22_DrawdownNonNegative ==
    (/\ sim.op = "simulate_trade_outcome"
     /\ sim.raised = "none"
     /\ sim.leverage >= 100)
        => sim.out.max_drawdown >= 0

\* C23: split_data returns train = the first floor(len(df) * train_ratio)
\* rows and test = the remaining rows, in their original order: every train
\* row precedes every test row, no row is in both, and train followed by
\* test is df.
C23_ChronologicalSplit ==
    dl.op = "split_data"
        => \A run \in {dl.a, dl.b} :
            LET train == run.out.train
                test == run.out.test
            IN  /\ Len(train) = (Len(run.df) * dl.train_ratio) \div 10
                /\ train \o test = run.df
                /\ \A i \in DOMAIN train, j \in DOMAIN test :
                       /\ train[i].timestamp < test[j].timestamp
                       /\ train[i] # test[j]

\* C23's case: a series of three rows split at the default ratio 0.8 into
\* two train rows and one test row
C23_Witness ==
    /\ dl.op = "split_data"
    /\ dl.train_ratio = 8
    /\ Len(dl.a.df) = 3
    /\ Len(dl.a.out.train) = 2
    /\ Len(dl.a.out.test) = 1

\* C24: the scaler is fitted on the train partition only: two series whose
\* train partitions are identical and whose test partitions differ give the
\* same scaler parameters and the same normalized train partition.
C24_ScalerIgnoresTest ==
    (/\ dl.op = "prepare_training_data"
     /\ dl.a.out.raised = "none"
     /\ dl.b.out.raised = "none"
     /\ split_data(dl.a.df, dl.train_ratio).train
            = split_data(dl.b.df, dl.train_ratio).train
     /\ split_data(dl.a.df, dl.train_ratio).test
            # split_data(dl.b.df, dl.train_ratio).test)
        => /\ dl.a.out.scaler = dl.b.out.scaler
           /\ dl.a.out.train = dl.b.out.train

\* C24's case: the same two train rows with different values, followed by
\* test rows that differ, prepared without error
C24_Witness ==
    /\ dl.op = "prepare_training_data"
    /\ dl.a.out.raised = "none"
    /\ dl.b.out.raised = "none"
    /\ Len(dl.a.out.train) = 2
    /\ dl.a.df[1].x # dl.a.df[2].x
    /\ split_data(dl.a.df, dl.train_ratio).train
           = split_data(dl.b.df, dl.train_ratio).train
    /\ dl.a.out.test # dl.b.out.test
    /\ dl.a.out.scaler = dl.b.out.scaler

RECURSIVE SeqSum(_)
SeqSum(q) == IF q = <<>> THEN 0 ELSE q[1] + SeqSum(Tail(q))

\* C25: evaluate(env, n_episodes = k) on an environment with max_steps = N
\* runs exactly k episodes, each begun by reset() and ended at the first
\* step that returns terminated or truncated; no episode is longer than N
\* steps or shorter than 1, and the returned action counts sum to the number
\* of steps taken.
C25_EvaluateRunsKEpisodes ==
    pw.mode = "evaluate"
        => /\ pw.episode_length <= max_steps
           /\ Len(pw.episode_lengths) <= pw.n_episodes
           /\ pw.pc = "raised" => pw.n_episodes = 0
           /\ pw.pc = "returned"
                  => /\ Len(pw.episode_lengths) = pw.n_episodes
                     /\ pw.resets = pw.n_episodes
                     /\ \A i \in DOMAIN pw.episode_lengths :
                            pw.episode_lengths[i] \in 1..max_steps
                     /\ pw.action_counts[0] + pw.action_counts[1]
                            + pw.action_counts[2]
                            = SeqSum(pw.episode_lengths)

\* C25's case: two episodes evaluated on a market series, each of several
\* steps and cut at the end of the data before max_steps, with rejections
\* and approvals among the actions
C25_Witness ==
    /\ pw.mode = "evaluate"
    /\ pw.pc = "returned"
    /\ pw.n_episodes = 2
    /\ pw.resets = 2
    /\ ~data.is_none
    /\ pw.episode_lengths[1] > 1
    /\ pw.episode_lengths[1] < max_steps
    /\ pw.action_counts[ACTION_REJECT] > 0
    /\ pw.action_counts[ACTION_APPROVE] > 0

\* C26: during train() with a history manager and run_id, every completed
\* episode produces exactly one log_episode record numbered with the count
\* of episodes completed so far and, the environment providing
\* get_detailed_episode_stats, exactly one detailed record with the same
\* number, describing the completed episode.
C26_EveryEpisodeLogged ==
    (pw.mode = "train" /\ pw.pc = "step")
        => LET episodes == fs[pw.run_id].metrics.episodes
               detailed == fs[pw.run_id].detailed
           IN  /\ Len(episodes) = pw.completed
               /\ Len(detailed) = pw.completed
               /\ \A i \in DOMAIN episodes : episodes[i].episode = i
               /\ \A i \in DOMAIN detailed : detailed[i].episode = i

\* the episode summaries are logged and numbered once the infos carry the
\* "episode" key
SummariesLogged ==
    (pw.mode = "train" /\ pw.pc = "step" /\ pw.monitored)
        => LET episodes == fs[pw.run_id].metrics.episodes
           IN  /\ Len(episodes) = pw.completed
               /\ \A i \in DOMAIN episodes : episodes[i].episode = i

\* no detailed record is ever written by train()
NoDetailedRecord ==
    pw.mode = "train" => fs[pw.run_id].detailed = <<>>


\* a transition in which step ran its body to the return
StepTaken == ret'.op = "step" /\ ret'.raised = "none"
             /\ current_step' = current_step + 1

\* C27: the reward of a step is computed from the health score held before
\* that step's balance update: the health bonus of step k follows the health
\* left by the steps before it (100% on the first step after reset), never
\* the balance change of step k's own outcome.
C27_RewardUsesPriorHealth ==
    [][StepTaken =>
          /\ ret'.reward =
                 calculate_reward(ret'.action,
                                  simulate_outcome(data, current_idx, balance,
                                                   hold_periods),
                                  portfolio_state.health_score)
          /\ reward_breakdown'.health_bonuses - reward_breakdown.health_bonuses
                 = HealthBonusOf(portfolio_state.health_score)
          /\ (current_step = 0 => portfolio_state.health_score = 1000)]_vars

\* C27's case: the step whose own outcome took the health under the
\* threshold was still paid the bonus, as every step before it
C27_Witness ==
    /\ StepReturned
    /\ InEpisode
    /\ current_step > 1
    /\ portfolio_state.health_score < health_threshold
    /\ reward_breakdown.health_bonuses = health_bonus * current_step


\* C28: in step, REJECT leaves the balance and the health score unchanged
\* whatever the simulated outcome; an approval (APPROVE or
\* APPROVE_WITH_WARNING) of a non-liquidated outcome sets the balance to
\* balance * (1 + 0.1 * pnl) and of a liquidated outcome to 0.9 * balance; so
\* an episode of only REJECT actions never changes the balance and never
\* returns terminated = True.
C28_BalanceUpdate ==
    [][StepTaken =>
          LET o == simulate_outcome(data, current_idx, balance, hold_periods)
          IN  /\ ret'.action = ACTION_REJECT =>
                     /\ balance' = balance
                     /\ portfolio_state'.health_score
                            = portfolio_state.health_score
              /\ (ret'.action # ACTION_REJECT /\ ~o.was_liquidated) =>
                     balance' = balance + (balance * o.pnl) \div 10000
              /\ (ret'.action # ACTION_REJECT /\ o.was_liquidated) =>
                     balance' = (balance * 9) \div 10
              /\ episode_trades'.num_approved = 0 =>
                     /\ balance' = initial_balance
                     /\ ~ret'.terminated]_vars

\* C28's case: a rejection of a losing or liquidated trade returned with the
\* account already cut by approvals of liquidated trades
C28_Witness ==
    /\ StepReturned
    /\ ret.action = ACTION_REJECT
    /\ balance = (((initial_balance * 9) \div 10) * 9) \div 10
    /\ portfolio_state.health_score < 1000
    /\ trade_outcomes.good_rejections >= 1
    /\ trade_outcomes.liquidations = 2


\* C29: after n steps have returned since the last reset (n >= 1, so that
\* get_episode_stats is not {}): num_trades = num_approved + num_rejected
\* = n = current_step; the three action counts sum to total_trades = n;
\* approved_trades + rejected_trades = total_trades; profitable_approved
\* + losing_approved + liquidations = approved_trades; good_rejections
\* + missed_opportunities <= rejected_trades; and min_balance <= balance
\* <= max_balance.
C29_EpisodeCountsAgree ==
    current_step >= 1 =>
        /\ ~get_episode_stats.empty
        /\ get_episode_stats.num_trades = current_step
        /\ get_episode_stats.num_approved + get_episode_stats.num_rejected
               = get_episode_stats.num_trades
        /\ action_counts.reject + action_counts.approve_warning
               + action_counts.approve = trade_outcomes.total_trades
        /\ trade_outcomes.total_trades = current_step
        /\ trade_outcomes.approved_trades + trade_outcomes.rejected_trades
               = trade_outcomes.total_trades
        /\ trade_outcomes.profitable_approved + trade_outcomes.losing_approved
               + trade_outcomes.liquidations = trade_outcomes.approved_trades
        /\ trade_outcomes.good_rejections + trade_outcomes.missed_opportunities
               <= trade_outcomes.rejected_trades
        /\ portfolio_tracking.min_balance <= balance
        /\ balance <= portfolio_tracking.max_balance

\* C29's case: an episode with a liquidated approval, a surviving approval
\* and a rejection
C29_Witness ==
    /\ StepReturned
    /\ current_step >= 3
    /\ trade_outcomes.liquidations >= 1
    /\ trade_outcomes.profitable_approved + trade_outcomes.losing_approved >= 1
    /\ trade_outcomes.rejected_trades >= 1
    /\ portfolio_tracking.min_balance < portfolio_tracking.max_balance


\* C30: no step returns terminated = True and truncated = True together:
\* when the balance falls to 10% of the initial balance or under on the step
\* on which max_steps is reached or the data runs out, the step returns
\* terminated = True and truncated = False.
C30_NeverBothFlags ==
    StepReturned =>
        /\ ~(ret.terminated /\ ret.truncated)
        /\ (balance * 10 <= initial_balance
            /\ (current_step >= max_steps \/ DataExhausted)) =>
               (ret.terminated /\ ~ret.truncated)

\* C30's case: the account was blown by the very step that reached
\* max_steps and ran out of data
C30_Witness ==
    /\ StepReturned
    /\ InEpisode
    /\ balance * 10 <= initial_balance
    /\ portfolio_tracking.max_balance = initial_balance
    /\ current_step = max_steps
    /\ DataExhausted
    /\ ret.terminated
    /\ ~ret.truncated

====
